---- MODULE Spec2Model ----
(***************************************************************************)
(* Cross-Domain Connector: the discovery and scoring engine.               *)
(*                                                                         *)
(* Strings are sequences of one-character strings ("ph/a.md" is            *)
(* <<"p","h","/","a",".","m","d">>), so that startsWith, includes, split,  *)
(* slice and toLowerCase are computed as the code computes them.  A        *)
(* character outside ASCII is written as its code point ("U+B178").        *)
(*                                                                         *)
(* Real numbers are fixed-point integers: similarities, distances and      *)
(* thresholds are counted in 1/Scale, serendipity scores in                *)
(* 1/(10000*Scale), so the score formula is exact.                          *)
(***************************************************************************)
EXTENDS Integers, Sequences, FiniteSets, TLC

(***************************************************************************)
(* Bounds of the model                                                     *)
(***************************************************************************)
\* resolution of the fixed-point numbers: 1.0 is Scale
Scale == 100

One == Scale

\* 1.0 in the unit of SerendipityScore.value
ScoreOne == 10000 * Scale

(***************************************************************************)
(* Generic helpers                                                         *)
(***************************************************************************)
Min(a, b) == IF a <= b THEN a ELSE b

Max(a, b) == IF a >= b THEN a ELSE b

Range(s) == {s[i] : i \in 1..Len(s)}

\* undefined, null and the empty string, for the tests of truthiness
None == <<>>

\* floor of the square root
RECURSIVE ISqrtBetween(_, _, _)
ISqrtBetween(n, lo, hi) ==
    IF lo >= hi THEN lo
    ELSE LET mid == (lo + hi + 1) \div 2
         IN  IF mid * mid <= n THEN ISqrtBetween(n, mid, hi)
             ELSE ISqrtBetween(n, lo, mid - 1)

ISqrt(n) == ISqrtBetween(n, 0, Min(n, 46340))

(***************************************************************************)
(* String primitives of the JavaScript runtime                             *)
(***************************************************************************)
UpperChars == <<"A","B","C","D","E","F","G","H","I","J","K","L","M",
                "N","O","P","Q","R","S","T","U","V","W","X","Y","Z">>

LowerChars == <<"a","b","c","d","e","f","g","h","i","j","k","l","m",
                "n","o","p","q","r","s","t","u","v","w","x","y","z">>

DigitChars == {"0","1","2","3","4","5","6","7","8","9"}

\* the printable ASCII characters in code order: Ascii[i] has code i + 31
Ascii == <<" ","!","\"","#","$","%","&","'","(",")","*","+",",","-",".","/",
           "0","1","2","3","4","5","6","7","8","9",":",";","<","=",">","?",
           "@","A","B","C","D","E","F","G","H","I","J","K","L","M","N","O",
           "P","Q","R","S","T","U","V","W","X","Y","Z","[","\\","]","^","_",
           "U+0060","a","b","c","d","e","f","g","h","i","j","k","l","m","n","o",
           "p","q","r","s","t","u","v","w","x","y","z","{","|","}","~">>

\* String.prototype.charCodeAt for one character
CharCode(c) == 31 + (CHOOSE i \in 1..Len(Ascii) : Ascii[i] = c)

LowerChar(c) ==
    IF \E i \in 1..Len(UpperChars) : UpperChars[i] = c
    THEN LowerChars[CHOOSE i \in 1..Len(UpperChars) : UpperChars[i] = c]
    ELSE c

\* String.prototype.toLowerCase
ToLowerCase(s) == [i \in 1..Len(s) |-> LowerChar(s[i])]

\* String.prototype.startsWith
StartsWith(s, prefix) ==
    /\ Len(prefix) <= Len(s)
    /\ SubSeq(s, 1, Len(prefix)) = prefix

\* String.prototype.includes
Includes(s, sub) ==
    \E i \in 0..(Len(s) - Len(sub)) : SubSeq(s, i + 1, i + Len(sub)) = sub

\* String.prototype.slice(n)
Slice(s, n) == SubSeq(s, n + 1, Len(s))

\* String.prototype.split(sep) for a one-character separator
RECURSIVE SplitFrom(_, _, _)
SplitFrom(s, sep, cur) ==
    IF s = <<>> THEN <<cur>>
    ELSE IF Head(s) = sep THEN <<cur>> \o SplitFrom(Tail(s), sep, <<>>)
    ELSE SplitFrom(Tail(s), sep, Append(cur, Head(s)))

Split(s, sep) == SplitFrom(s, sep, <<>>)

(***************************************************************************)
(* note-id.ts                                                              *)
(***************************************************************************)
\* A 32-bit integer is the pair <<hi, lo>> of its 16-bit halves.
Half == 65536

\* one round of simpleHash: hash = (hash << 5) - hash + char, kept to 32 bits
HashStep(h, code) ==
    LET lo == 31 * h[2] + code
        hi == 31 * h[1] + (lo \div Half)
    IN  <<hi % Half, lo % Half>>

RECURSIVE HashFrom(_, _)
HashFrom(h, str) ==
    IF str = <<>> THEN h ELSE HashFrom(HashStep(h, CharCode(Head(str))), Tail(str))

\* Math.abs of the signed 32-bit value
Abs32(h) ==
    IF h[1] < Half \div 2 THEN h
    ELSE <<(Half - 1 - h[1] + (IF h[2] = 0 THEN 1 ELSE 0)) % Half, (Half - h[2]) % Half>>

\* the 8-digit hexadecimal string of the hash, as its two 16-bit halves:
\* strings of this form are ordered as the pairs are
simpleHash(str) == Abs32(HashFrom(<<0, 0>>, str))

MdExt == <<".","m","d">>

generateNoteId(path) ==
    LET n == Len(path) - Len(MdExt)
    IN  simpleHash(IF n >= 0 /\ SubSeq(path, n + 1, Len(path)) = MdExt
                   THEN SubSeq(path, 1, n)
                   ELSE path)

\* the order of two note identifiers as strings (Array.prototype.sort)
IdLess(a, b) == a[1] < b[1] \/ (a[1] = b[1] /\ a[2] < b[2])

(***************************************************************************)
(* DomainDistance (value object)                                           *)
(***************************************************************************)
\* private constructor: Math.max(0, Math.min(1, value))
DomainDistance(value) == Max(0, Min(One, value))

\* the elements of a list without repetition (new Set(list))
RECURSIVE Dedup(_)
Dedup(s) ==
    IF s = <<>> THEN <<>>
    ELSE LET r == Dedup(SubSeq(s, 1, Len(s) - 1))
         IN  IF s[Len(s)] \in Range(r) THEN r ELSE Append(r, s[Len(s)])

\* the distance computed over the lists, repetitions counted
fromTagJaccard_Lists(tags1, tags2) ==
    IF Len(tags1) = 0 /\ Len(tags2) = 0 THEN DomainDistance(One)
    ELSE LET intersection == Cardinality({i \in 1..Len(tags1) : tags1[i] \in Range(tags2)})
             union == Len(tags1) + Len(tags2) - intersection
         IN  IF union = 0 THEN DomainDistance(One)
             ELSE DomainDistance(One - (intersection * One) \div union)

\* fromTagJaccard, lines 50-77
fromTagJaccard(tags1, tags2) ==
    IF Len(tags1) = 0 /\ Len(tags2) = 0 THEN DomainDistance(One)
    ELSE LET set1 == Dedup(tags1)
             set2 == Dedup(tags2)
             intersection == Cardinality({i \in 1..Len(set1) : set1[i] \in Range(set2)})
             union == Len(set1) + Len(set2) - intersection
         IN  IF union = 0 THEN DomainDistance(One)
             ELSE DomainDistance(One - (intersection * One) \div union)

\* the parts of a path that are not empty: split('/').filter(Boolean)
RECURSIVE NonEmptyParts(_)
NonEmptyParts(parts) ==
    IF parts = <<>> THEN <<>>
    ELSE (IF Head(parts) = <<>> THEN <<>> ELSE <<Head(parts)>>)
         \o NonEmptyParts(Tail(parts))

\* the length of the common prefix of two lists of parts (lines 89-98)
RECURSIVE CommonLength(_, _)
CommonLength(parts1, parts2) ==
    IF parts1 = <<>> \/ parts2 = <<>> THEN 0
    ELSE IF Head(parts1) = Head(parts2)
    THEN 1 + CommonLength(Tail(parts1), Tail(parts2))
    ELSE 0

fromFolderPath(path1, path2) ==
    LET parts1 == NonEmptyParts(Split(path1, "/"))
        parts2 == NonEmptyParts(Split(path2, "/"))
        commonLength == CommonLength(parts1, parts2)
        maxLength == Max(Len(parts1), Len(parts2))
    IN  IF maxLength = 0 THEN DomainDistance(One)
        ELSE DomainDistance(One - (commonLength * One) \div maxLength)

\* DomainDistance.fromValue
DomainDistance_fromValue(value) == DomainDistance(value)

(***************************************************************************)
(* SerendipityScore (value object), in 1/ScoreOne                          *)
(***************************************************************************)
\* private constructor: Math.max(0, Math.min(1, value))
SerendipityScore(value) == Max(0, Min(ScoreOne, value))

\* calculate without the floor of the specificity penalty
calculate_NoFloor(similarity, domainDistance, isAlreadyLinked, genericTermsCount) ==
    LET baseScore10 == similarity * 4 + domainDistance * 6
        noveltyPenalty10 == IF isAlreadyLinked THEN 5 ELSE 10
        specificityPenalty100 == 100 - genericTermsCount * 15
    IN  SerendipityScore(baseScore10 * noveltyPenalty10 * specificityPenalty100)

\* calculate: similarity and domainDistance in 1/Scale
calculate(similarity, domainDistance, isAlreadyLinked, genericTermsCount) ==
    LET baseScore10 == similarity * 4 + domainDistance * 6
        noveltyPenalty10 == IF isAlreadyLinked THEN 5 ELSE 10
        specificityPenalty100 == Max(30, 100 - genericTermsCount * 15)
    IN  SerendipityScore(baseScore10 * noveltyPenalty10 * specificityPenalty100)

\* SerendipityScore.fromValue
SerendipityScore_fromValue(value) == SerendipityScore(value)

(***************************************************************************)
(* cross-domain-connection.ts                                              *)
(***************************************************************************)
inferConnectionType(similarity, domainDistanceValue) ==
    IF similarity * 10 > 8 * One /\ domainDistanceValue * 10 > 8 * One
    THEN "unexpected_similarity"
    ELSE IF similarity * 10 > 6 * One /\ domainDistanceValue * 10 > 5 * One
    THEN "bridging_concept"
    ELSE IF similarity * 10 < 5 * One /\ domainDistanceValue * 10 > 7 * One
    THEN "contrasting"
    ELSE "analogical"

(***************************************************************************)
(* The corpus: the notes of the vault and the embedding store              *)
(***************************************************************************)
PathA == <<"p","h","/","a",".","m","d">>

PathB == <<"b","i","/","b",".","m","d">>

PathNote == <<"p","h","/","n","o","t","e",".","m","d">>

PathD == <<"1","_","r","/","b","i","/","d",".","m","d">>

\* a note that was embedded and is not a file of the vault
PathGone == <<"z","z","/","g",".","m","d">>

VaultFiles == {PathA, PathB, PathNote, PathD}

IdA == generateNoteId(PathA)

IdB == generateNoteId(PathB)

IdNote == generateNoteId(PathNote)

IdD == generateNoteId(PathD)

IdGone == generateNoteId(PathGone)

\* metadataCache.getFileCache(file).tags: the tags of each note, with their '#'
FileCacheTags(path) ==
    IF path = PathA THEN << <<"#","d","/","p","h">>, <<"#","x">> >>
    ELSE IF path = PathB THEN << <<"#","d","/","b","i">>, <<"#","x">> >>
    ELSE IF path = PathNote THEN << <<"#","y">>, <<"#","d","/","b","i">> >>
    ELSE <<>>

\* Object.keys(index.notes) of the embedding index, in its order
EmbeddingIndexKeys == <<IdA, IdGone, IdB, IdNote, IdD>>

\* the embedding files that can be on disk: note id -> vector
EmbeddingStores ==
    { (IdA :> <<1, 0>> @@ IdB :> <<2, 1>> @@ IdNote :> <<1, 0>> @@ IdD :> <<1, 1>>
           @@ IdGone :> <<1, 0>>),
      (IdA :> <<1, 0>> @@ IdB :> <<1>> @@ IdNote :> <<1, 0>> @@ IdD :> <<2, 1>>),
      (IdA :> <<1, 2>> @@ IdB :> <<2, 1>> @@ IdNote :> <<0, 0>>) }

\* the resolved links of the metadata cache: <<from path, to path>>
LinkSets == { {}, {<<PathB, PathA>>}, {<<PathA, PathD>>, <<PathNote, PathB>>} }

\* folder lists the settings can hold
FolderLists ==
    { [excludeFolders |-> <<>>, includeFolders |-> <<>>],
      [excludeFolders |-> << <<"P","H">> >>, includeFolders |-> <<>>],
      [excludeFolders |-> <<>>, includeFolders |-> << <<"b","i">>, <<"p","h">> >>] }

ClassificationMethods == {"tag", "folder", "cluster"}

DomainTagPrefixes == << <<"d","/">> >>

(***************************************************************************)
(* State                                                                   *)
(***************************************************************************)
VARIABLES
    vault,              \* the markdown files of the vault (paths)
    links,              \* the resolved links between files
    embeddingFiles,     \* the embedding store: note id -> vector
    indexing,           \* buildNoteIdIndex: whether it runs, the files it has still to set
    noteIdToPath,       \* DomainClassificationService.noteIdToPath
    classification,     \* DomainClassificationService.settings
    options,            \* DiscoverConnectionsUseCase.options
    exPc,               \* execute: "idle", "scan" or "done"
    exCaller,           \* who awaits execute: "view" or "findTop"
    sourceNoteId,       \* execute: its argument
    sourceEmbedding,    \* execute: the source's vector
    sourceNoteDomain,   \* execute: the classified source
    allEmbeddings,      \* execute: the entries of the Map it scans
    exNext,             \* execute: the position of the scan in allEmbeddings
    candidates,         \* execute: the connections found so far
    exStatus,           \* execute: "running", "returned" or "threw"
    exResult,           \* execute: the list it returned
    ftPc,               \* findTop: "idle", "next", "await" or "done"
    limit,              \* findTop: its argument
    sampledNoteIds,     \* findTop: the sources it runs execute for
    ftNext,             \* findTop: the position in sampledNoteIds
    processedPairs,     \* findTop: the pair keys seen
    allConnections,     \* findTop: the connections kept
    ftStatus,           \* findTop: "running", "returned" or "threw"
    ftResult,           \* findTop: the list it returned
    deepOptions,        \* DeepSerendipityUseCase.options
    dpPc,               \* deep execute: "idle", "evaluate", "await" or "done"
    candidatePairs,     \* deep execute: the pairs it evaluates
    dpNext,             \* deep execute: the position in candidatePairs
    results,            \* evaluatePairsWithLLM: the connections kept so far
    dpStatus,           \* deep execute: "running", "returned" or "threw"
    dpResult,           \* deep execute: the list it returned
    requests,           \* the requests the evaluator received, in order
    answers,            \* what the evaluator answered to them, in order
    heap,               \* the objects of the settings: DEFAULT_SETTINGS' and the plugin's
    settings,           \* CrossDomainConnectorPlugin.settings
    data,               \* the plugin's data.json: the empty list before the first save
    stored,             \* the caches the modal stored last and did not clear
    view,               \* the sidebar view: whether it is open, and its
                        \* discoverUseCase when that is no longer the plugin's
    cacheOps,           \* the cache operation of each flow of the modal between its
                        \* loadData and its saveData, in a list
    deepService,        \* DeepSerendipityUseCase.classificationService: the empty list
                        \* for the instance the plugin holds, else the instance
                        \* the plugin has replaced, in a list
    fnCall,             \* the function applied last, with its arguments
    fnResult            \* what it returned

envVars == <<vault, links, embeddingFiles, indexing>>

svcVars == <<noteIdToPath, classification, options>>

exVars == <<exPc, exCaller, sourceNoteId, sourceEmbedding, sourceNoteDomain,
            allEmbeddings, exNext, candidates, exStatus, exResult>>

ftVars == <<ftPc, limit, sampledNoteIds, ftNext, processedPairs, allConnections,
            ftStatus, ftResult>>

dpVars == <<dpPc, candidatePairs, dpNext, results, dpStatus, dpResult, requests,
            answers>>

pluginVars == <<heap, settings, data, stored, deepService, cacheOps, view>>

fnVars == <<fnCall, fnResult>>

vars == <<envVars, svcVars, exVars, ftVars, deepOptions, dpVars, pluginVars, fnVars>>

(***************************************************************************)
(* VaultEmbeddingsReader                                                   *)
(***************************************************************************)
\* getEmbedding: the NoteEmbedding of the note in a list, the empty list for
\* null (its file is missing)
getEmbedding(noteId) ==
    IF noteId \in DOMAIN embeddingFiles
    THEN << [noteId |-> noteId, embedding |-> embeddingFiles[noteId]] >>
    ELSE <<>>

\* getAllEmbeddings: the Map of the index's notes that have an embedding, as
\* the sequence of its entries
RECURSIVE EmbeddingEntries(_)
EmbeddingEntries(keys) ==
    IF keys = <<>> THEN <<>>
    ELSE getEmbedding(Head(keys)) \o EmbeddingEntries(Tail(keys))

getAllEmbeddings == EmbeddingEntries(EmbeddingIndexKeys)

(***************************************************************************)
(* DomainClassificationService                                             *)
(***************************************************************************)
\* buildNoteIdIndex: the index of the markdown files
buildNoteIdIndex(files) ==
    [id \in {generateNoteId(f) : f \in files} |->
        CHOOSE f \in files : generateNoteId(f) = id]

\* vault.getMarkdownFiles(): the files in the order the vault lists them
RECURSIVE MarkdownFilesFrom(_, _)
MarkdownFilesFrom(order, files) ==
    IF order = <<>> THEN <<>>
    ELSE (IF Head(order) \in files THEN <<Head(order)>> ELSE <<>>)
             \o MarkdownFilesFrom(Tail(order), files)

getMarkdownFiles(files) ==
    MarkdownFilesFrom(<<PathA, PathB, PathNote, PathD, PathGone>>, files)

\* noteIdToPath.set(noteId, path)
IndexSet(index, path) ==
    [id \in DOMAIN index \cup {generateNoteId(path)} |->
        IF id = generateNoteId(path) THEN path ELSE index[id]]

\* no buildNoteIdIndex runs: the last one read these files and replaced the
\* index `before`
IndexBuilt(files, before) ==
    [running |-> FALSE, todo |-> <<>>, files |-> files, before |-> before]

getPathByNoteId(noteId) ==
    IF noteId \in DOMAIN noteIdToPath THEN noteIdToPath[noteId] ELSE None

\* getFileByNoteId: the path of the note's file, None when the index or the
\* vault does not have it
getFileByNoteId(noteId) ==
    LET path == getPathByNoteId(noteId)
    IN  IF path = None THEN None
        ELSE IF path \in vault THEN path
        ELSE None

\* extractTags: metadata.tags.map(t => t.tag.replace(/^#/, ''))
extractTags(metadataTags) ==
    [i \in 1..Len(metadataTags) |->
        IF StartsWith(metadataTags[i], <<"#">>) THEN Slice(metadataTags[i], 1)
        ELSE metadataTags[i]]

\* tags.find(t => t.startsWith(prefix)), None when there is none
RECURSIVE FindTag(_, _)
FindTag(tags, prefix) ==
    IF tags = <<>> THEN None
    ELSE IF StartsWith(Head(tags), prefix) THEN Head(tags)
    ELSE FindTag(Tail(tags), prefix)

\* inferDomainFromTags: None when no tag carries a domain
RECURSIVE inferDomainFromTags(_, _)
inferDomainFromTags(tags, prefixes) ==
    IF prefixes = <<>> THEN None
    ELSE LET domainTag == FindTag(tags, Head(prefixes))
         IN  IF domainTag # None
             THEN Slice(domainTag, Len(Head(prefixes)))
             ELSE inferDomainFromTags(tags, Tail(prefixes))

\* /^\d+_/.test(name)
HasNumericPrefix(name) ==
    \E n \in 1..(Len(name) - 1) :
        /\ \A i \in 1..n : name[i] \in DigitChars
        /\ name[n + 1] = "_"

\* the top-level folder whatever its name
inferDomainFromPath_TopFolder(path) ==
    LET parts == Split(path, "/")
    IN  IF Len(parts) >= 2 THEN parts[1] ELSE <<"r","o","o","t">>

\* inferDomainFromPath, lines 141-154
inferDomainFromPath(path) ==
    LET parts == Split(path, "/")
    IN  IF Len(parts) >= 2
        THEN IF HasNumericPrefix(parts[1]) /\ Len(parts) >= 3 THEN parts[2]
             ELSE parts[1]
        ELSE <<"r","o","o","t">>

\* file.basename: the file name without its extension
Basename(path) ==
    LET parts == Split(path, "/")
        name == parts[Len(parts)]
        dots == {i \in 1..Len(name) : name[i] = "."}
    IN  IF dots = {} THEN name
        ELSE SubSeq(name, 1, (CHOOSE i \in dots : \A j \in dots : j <= i) - 1)

\* the domains of the tags that carry one of the prefixes, in the order found
RECURSIVE TagDomains(_, _)
TagDomains(tags, prefix) ==
    IF tags = <<>> THEN <<>>
    ELSE (IF StartsWith(Head(tags), prefix)
          THEN << Slice(Head(tags), Len(prefix)) >> ELSE <<>>)
         \o TagDomains(Tail(tags), prefix)

RECURSIVE AllTagDomains(_, _)
AllTagDomains(tags, prefixes) ==
    IF prefixes = <<>> THEN <<>>
    ELSE TagDomains(tags, Head(prefixes)) \o AllTagDomains(tags, Tail(prefixes))

RECURSIVE Without(_, _)
Without(s, v) ==
    IF s = <<>> THEN <<>>
    ELSE (IF Head(s) = v THEN <<>> ELSE <<Head(s)>>) \o Without(Tail(s), v)

extractSecondaryDomainsWith(service, tags, primaryDomain) ==
    Dedup(Without(AllTagDomains(tags, service.domainTagPrefixes), primaryDomain))

extractSecondaryDomains(tags, primaryDomain) ==
    extractSecondaryDomainsWith(classification, tags, primaryDomain)

\* the marker of a cluster domain: `cluster_${noteId}`
ClusterDomain(noteId) == <<"cluster_", noteId>>

\* lines 93-111: the primary domain under the settings of the service
PrimaryDomainWith(service, noteId, path, tags) ==
    IF service.method = "tag"
    THEN LET fromTags == inferDomainFromTags(tags, service.domainTagPrefixes)
         IN  IF fromTags # None THEN fromTags
             ELSE inferDomainFromPath(path)
    ELSE IF service.method = "folder" THEN inferDomainFromPath(path)
    ELSE IF service.method = "cluster" THEN ClusterDomain(noteId)
    ELSE <<"u","n","c","a","t","e","g","o","r","i","z","e","d">>

PrimaryDomainOf(noteId, path, tags) ==
    PrimaryDomainWith(classification, noteId, path, tags)

\* classifyNote: the NoteDomain of the note in a list, the empty list when it
\* throws 'Note not found'
classifyNote(noteId) ==
    LET file == getFileByNoteId(noteId)
    IN  IF file = None THEN <<>>
        ELSE LET tags == extractTags(FileCacheTags(file))
                 primaryDomain == PrimaryDomainOf(noteId, file, tags)
             IN  << [noteId |-> noteId,
                     path |-> file,
                     title |-> Basename(file),
                     primaryDomain |-> primaryDomain,
                     secondaryDomains |-> extractSecondaryDomains(tags, primaryDomain),
                     tags |-> tags] >>

\* getPathByNoteId of an instance of the service: [settings, noteIdToPath]
PathIn(service, noteId) ==
    IF noteId \in DOMAIN service.noteIdToPath THEN service.noteIdToPath[noteId]
    ELSE None

\* classifyNote of an instance of the service
classifyNoteIn(service, noteId) ==
    LET path == PathIn(service, noteId)
        file == IF path = None THEN None
                ELSE IF path \in vault THEN path
                ELSE None
    IN  IF file = None THEN <<>>
        ELSE LET tags == extractTags(FileCacheTags(file))
                 primaryDomain == PrimaryDomainWith(service.settings, noteId, file, tags)
             IN  << [noteId |-> noteId,
                     path |-> file,
                     title |-> Basename(file),
                     primaryDomain |-> primaryDomain,
                     secondaryDomains |->
                         extractSecondaryDomainsWith(service.settings, tags, primaryDomain),
                     tags |-> tags] >>

\* this.classificationService of the plugin
PluginService == [settings |-> classification, noteIdToPath |-> noteIdToPath]

\* this.classificationService of the DeepSerendipityUseCase
DeepClassifier == IF deepService = <<>> THEN PluginService ELSE deepService[1]

(***************************************************************************)
(* main.ts: createLinkChecker                                              *)
(***************************************************************************)
\* a checker that looks for a link from path1 to path2 only
linkChecker_OneWay(path1, path2) ==
    IF ~(path1 \in vault /\ path2 \in vault) THEN FALSE
    ELSE <<path1, path2>> \in links

\* the link checker handed to the use case: a link of file1 that resolves to
\* file2, or a link of file2 that resolves to file1
linkChecker(path1, path2) ==
    IF ~(path1 \in vault /\ path2 \in vault) THEN FALSE
    ELSE \/ <<path1, path2>> \in links
         \/ <<path2, path1>> \in links

(***************************************************************************)
(* DiscoverConnectionsUseCase                                              *)
(***************************************************************************)
GENERIC_TERMS ==
    << <<"n","o","t","e">>, <<"i","d","e","a">>, <<"c","o","n","c","e","p","t">>,
       <<"t","h","o","u","g","h","t">>, <<"U+B178","U+D2B8">>,
       <<"U+C544","U+C774","U+B514","U+C5B4">>, <<"U+AC1C","U+B150">>,
       <<"U+C0DD","U+AC01">>, <<"s","u","m","m","a","r","y">>,
       <<"o","v","e","r","v","i","e","w">>, <<"U+C694","U+C57D">>,
       <<"U+AC1C","U+C694">> >>

RECURSIVE Dot(_, _)
Dot(a, b) == IF a = <<>> THEN 0 ELSE Head(a) * Head(b) + Dot(Tail(a), Tail(b))

\* cosineSimilarity: the similarity in 1/Scale, dotProduct / (sqrt(normA) *
\* sqrt(normB)), in a list; the empty list when it throws 'Vectors must have
\* same length'
cosineSimilarity(a, b) ==
    IF Len(a) # Len(b) THEN <<>>
    ELSE LET dotProduct == Dot(a, b)
             normA == Dot(a, a)
             normB == Dot(b, b)
             denominator == ISqrt(normA * normB * One * One)
         IN  IF denominator = 0 THEN <<0>>
             ELSE <<(dotProduct * One * One) \div denominator>>

isAlreadyLinked(path1, path2) == linkChecker(path1, path2)

\* the number of generic terms the string holds
TermsIn(str) ==
    Cardinality({i \in 1..Len(GENERIC_TERMS) :
                    Includes(ToLowerCase(str), ToLowerCase(GENERIC_TERMS[i]))})

RECURSIVE TermsInAll(_)
TermsInAll(strs) ==
    IF strs = <<>> THEN 0 ELSE TermsIn(Head(strs)) + TermsInAll(Tail(strs))

countGenericTerms(note) == TermsIn(note.title) + TermsInAll(note.tags)

\* folders.some(folder => pathLower.startsWith(folder.toLowerCase() + '/'))
UnderSomeFolder(path, folders) ==
    \E i \in 1..Len(folders) :
        StartsWith(ToLowerCase(path), Append(ToLowerCase(folders[i]), "/"))

isIncludedPath(path) ==
    IF Len(options.includeFolders) = 0 THEN TRUE
    ELSE UnderSomeFolder(path, options.includeFolders)

isExcludedPath(path) == UnderSomeFolder(path, options.excludeFolders)

\* lines 84-97: the folder filter, applied when the target has a path
SkipExcluded(targetPath) ==
    /\ targetPath # None
    /\ (~isIncludedPath(targetPath) \/ isExcludedPath(targetPath))

\* lines 99-106: already linked notes are left out
SkipAlreadyLinked(sourcePath, targetPath) ==
    /\ sourcePath # None
    /\ targetPath # None
    /\ isAlreadyLinked(sourcePath, targetPath)

\* no same-domain check
SkipSameDomain_Never(source, target) == FALSE

\* lines 115-119: only cross-domain pairs
SkipSameDomain(source, target) == source.primaryDomain = target.primaryDomain

\* lines 127-131
SkipLowSimilarity(similarity) == similarity < options.minSimilarity

\* no minimum score
SkipLowSerendipity_Never(score) == FALSE

\* lines 147-151: the score is in 1/ScoreOne, the threshold in 1/Scale
SkipLowSerendipity(score) == score < options.minSerendipityScore * (ScoreOne \div One)

\* the connection of lines 133-162
Connection(source, target, similarity) ==
    LET domainDistance == fromTagJaccard(source.tags, target.tags)
    IN  [sourceNote |-> source,
         targetNote |-> target,
         serendipityScore |->
             calculate(similarity, domainDistance, FALSE, countGenericTerms(target)),
         domainDistance |-> domainDistance,
         similarity |-> similarity,
         connectionType |-> inferConnectionType(similarity, domainDistance)]

\* the try block of lines 108-167 for one target: what it adds to candidates;
\* whatever is thrown inside it is caught and the target is skipped
TryTarget(source, srcVector, classified, targetVector) ==
    IF classified = <<>> THEN <<>>                     \* classifyNote threw
    ELSE IF SkipSameDomain(source, classified[1]) THEN <<>>
    ELSE LET similarity == cosineSimilarity(srcVector, targetVector)
         IN  IF similarity = <<>> THEN <<>>            \* cosineSimilarity threw
             ELSE IF SkipLowSimilarity(similarity[1]) THEN <<>>
             ELSE LET conn == Connection(source, classified[1], similarity[1])
                  IN  IF SkipLowSerendipity(conn.serendipityScore) THEN <<>>
                      ELSE <<conn>>

\* one round of the loop of lines 77-168: what the target adds to candidates
ScanTarget(source, srcVector, entry) ==
    IF entry.noteId = source.noteId THEN <<>>
    ELSE LET targetPath == getPathByNoteId(entry.noteId)
             sourcePath == getPathByNoteId(source.noteId)
         IN  IF SkipExcluded(targetPath) THEN <<>>
             ELSE IF SkipAlreadyLinked(sourcePath, targetPath) THEN <<>>
             ELSE TryTarget(source, srcVector, classifyNote(entry.noteId),
                            entry.embedding)

\* candidates.sort((a, b) => b.serendipityScore.value - a.serendipityScore.value):
\* a stable sort by score, highest first
RECURSIVE InsertByScore(_, _)
InsertByScore(sorted, conn) ==
    IF sorted = <<>> THEN <<conn>>
    ELSE IF Head(sorted).serendipityScore >= conn.serendipityScore
    THEN <<Head(sorted)>> \o InsertByScore(Tail(sorted), conn)
    ELSE <<conn>> \o sorted

RECURSIVE SortByScore(_)
SortByScore(conns) ==
    IF conns = <<>> THEN <<>>
    ELSE InsertByScore(SortByScore(SubSeq(conns, 1, Len(conns) - 1)), conns[Len(conns)])

\* Array.prototype.slice(0, n)
Take(s, n) ==
    IF n >= 0 THEN SubSeq(s, 1, Min(Len(s), n))
    ELSE SubSeq(s, 1, Max(Len(s) + n, 0))

\* truncation without the sort
RankAndTruncate_Unsorted(conns, maxResults) == Take(conns, maxResults)

\* lines 181-184
RankAndTruncate(conns, maxResults) == Take(SortByScore(conns), maxResults)

\* the limit findTopSerendipitousConnections samples the sources above
SampleSize == 100

\* the most places the random order turns the array by
MaxRotation == 2

\* [...array].sort(() => Math.random() - 0.5): the sort leaves the elements in
\* an order the random comparator decides.  The orders drawn here are the
\* array turned by up to MaxRotation places, forwards and backwards.
Shuffles(array) ==
    LET n == Len(array)
    IN  IF n = 0 THEN {array}
        ELSE {[i \in 1..n |-> array[(((IF backwards THEN n - i ELSE i - 1) + turn) % n) + 1]] :
                 turn \in 0..Min(MaxRotation, n - 1), backwards \in BOOLEAN}

\* sampleArray (lines 314-317): the first `size` elements of the shuffled copy
sampleArray(array, size) ==
    {Take(shuffled, size) : shuffled \in Shuffles(array)}

\* a sampling that is never done
SampledNoteIds_All(noteIds) == {noteIds}

\* lines 199-202: the sources findTop runs execute for
SampledNoteIds(noteIds) ==
    IF Len(noteIds) > SampleSize THEN sampleArray(noteIds, SampleSize)
    ELSE {noteIds}

\* a key that keeps the direction of the pair
PairKey_Ordered(a, b) == <<a, b>>

\* [a, b].sort().join('-'): the key of the unordered pair
PairKey(a, b) == IF IdLess(b, a) THEN <<b, a>> ELSE <<a, b>>

\* lines 207-216: the connections of one execute the loop keeps, and the keys
\* it has then seen
RECURSIVE KeepNewPairs(_, _, _)
KeepNewPairs(conns, seen, kept) ==
    IF conns = <<>> THEN [processedPairs |-> seen, allConnections |-> kept]
    ELSE LET conn == Head(conns)
             pairKey == PairKey(conn.sourceNote.noteId, conn.targetNote.noteId)
         IN  IF pairKey \in seen THEN KeepNewPairs(Tail(conns), seen, kept)
             ELSE KeepNewPairs(Tail(conns), seen \cup {pairKey}, Append(kept, conn))

(***************************************************************************)
(* Actions: DiscoverConnectionsUseCase.execute                             *)
(***************************************************************************)
NoOperation ==
    /\ exPc \in {"idle", "done"}
    /\ ftPc \in {"idle", "done"}
    /\ dpPc \in {"idle", "done"}

ExIdle ==
    /\ exPc' = "idle"
    /\ exCaller' = "view"
    /\ sourceNoteId' = <<0, 0>>
    /\ sourceEmbedding' = <<>>
    /\ sourceNoteDomain' = <<>>
    /\ allEmbeddings' = <<>>
    /\ exNext' = 1
    /\ candidates' = <<>>
    /\ exStatus' = "running"
    /\ exResult' = <<>>

FtIdle ==
    /\ ftPc' = "idle"
    /\ limit' = 0
    /\ sampledNoteIds' = <<>>
    /\ ftNext' = 1
    /\ processedPairs' = {}
    /\ allConnections' = <<>>
    /\ ftStatus' = "running"
    /\ ftResult' = <<>>

DpIdle ==
    /\ dpPc' = "idle"
    /\ candidatePairs' = <<>>
    /\ dpNext' = 1
    /\ results' = <<>>
    /\ dpStatus' = "running"
    /\ dpResult' = <<>>
    /\ requests' = <<>>
    /\ answers' = <<>>

\* lines 48-69: execute up to its loop
ExecuteBegin(noteId, caller) ==
    LET found == getEmbedding(noteId)
        classified == classifyNote(noteId)
    IN  /\ exCaller' = caller
        /\ sourceNoteId' = noteId
        /\ exNext' = 1
        /\ candidates' = <<>>
        /\ exResult' = <<>>
        /\ IF found = <<>>
           THEN /\ exPc' = "done"                  \* return []
                /\ exStatus' = "returned"
                /\ sourceEmbedding' = <<>>
                /\ sourceNoteDomain' = <<>>
                /\ allEmbeddings' = <<>>
           ELSE IF classified = <<>>
           THEN /\ exPc' = "done"                  \* classifyNote threw
                /\ exStatus' = "threw"
                /\ sourceEmbedding' = found[1].embedding
                /\ sourceNoteDomain' = <<>>
                /\ allEmbeddings' = <<>>
           ELSE /\ exPc' = "scan"
                /\ exStatus' = "running"
                /\ sourceEmbedding' = found[1].embedding
                /\ sourceNoteDomain' = classified
                /\ allEmbeddings' = getAllEmbeddings

\* the view runs execute for the active note
Execute(noteId) ==
    /\ NoOperation
    /\ ExecuteBegin(noteId, "view")
    /\ FtIdle
    /\ DpIdle
    /\ UNCHANGED <<pluginVars, fnVars, envVars, svcVars, deepOptions>>

\* a scan that lets the failure of a target's classification end execute
ExecuteScan_AbortOnFailure ==
    /\ exPc = "scan"
    /\ exNext <= Len(allEmbeddings)
    /\ LET entry == allEmbeddings[exNext]
           failed == /\ entry.noteId # sourceNoteId
                     /\ ~SkipExcluded(getPathByNoteId(entry.noteId))
                     /\ ~SkipAlreadyLinked(getPathByNoteId(sourceNoteId),
                                           getPathByNoteId(entry.noteId))
                     /\ classifyNote(entry.noteId) = <<>>
       IN  /\ candidates' = candidates \o
                  ScanTarget(sourceNoteDomain[1], sourceEmbedding, entry)
           /\ exPc' = IF failed THEN "done" ELSE exPc
           /\ exStatus' = IF failed THEN "threw" ELSE exStatus
    /\ exNext' = exNext + 1
    /\ UNCHANGED <<exCaller, sourceNoteId, sourceEmbedding, sourceNoteDomain,
                   allEmbeddings, exResult>>
    /\ UNCHANGED <<pluginVars, fnVars, envVars, svcVars, ftVars, deepOptions, dpVars>>

\* lines 77-168: one round of the loop
ExecuteScan ==
    /\ exPc = "scan"
    /\ exNext <= Len(allEmbeddings)
    /\ candidates' = candidates \o
           ScanTarget(sourceNoteDomain[1], sourceEmbedding, allEmbeddings[exNext])
    /\ exNext' = exNext + 1
    /\ UNCHANGED <<exPc, exCaller, sourceNoteId, sourceEmbedding, sourceNoteDomain,
                   allEmbeddings, exStatus, exResult>>
    /\ UNCHANGED <<pluginVars, fnVars, envVars, svcVars, ftVars, deepOptions, dpVars>>

\* lines 181-184: the loop is over, execute returns
ExecuteReturn ==
    /\ exPc = "scan"
    /\ exNext > Len(allEmbeddings)
    /\ exResult' = RankAndTruncate(candidates, options.maxResults)
    /\ exStatus' = "returned"
    /\ exPc' = "done"
    /\ UNCHANGED <<exCaller, sourceNoteId, sourceEmbedding, sourceNoteDomain,
                   allEmbeddings, exNext, candidates>>
    /\ UNCHANGED <<pluginVars, fnVars, envVars, svcVars, ftVars, deepOptions, dpVars>>

(***************************************************************************)
(* Actions: findTopSerendipitousConnections                                *)
(***************************************************************************)
\* lines 190-202
FindTop(n) ==
    /\ NoOperation
    /\ LET noteIds == [i \in 1..Len(getAllEmbeddings) |-> getAllEmbeddings[i].noteId]
       IN  \E sample \in SampledNoteIds(noteIds) : sampledNoteIds' = sample
    /\ limit' = n
    /\ ftPc' = "next"
    /\ ftNext' = 1
    /\ processedPairs' = {}
    /\ allConnections' = <<>>
    /\ ftStatus' = "running"
    /\ ftResult' = <<>>
    /\ ExIdle
    /\ DpIdle
    /\ UNCHANGED <<pluginVars, fnVars, envVars, svcVars, deepOptions>>

\* line 205: the call of execute for the next source
FindTopCall ==
    /\ ftPc = "next"
    /\ ftNext <= Len(sampledNoteIds)
    /\ ExecuteBegin(sampledNoteIds[ftNext], "findTop")
    /\ ftPc' = "await"
    /\ UNCHANGED <<limit, sampledNoteIds, ftNext, processedPairs, allConnections,
                   ftStatus, ftResult>>
    /\ UNCHANGED <<pluginVars, fnVars, envVars, svcVars, deepOptions, dpVars>>

\* lines 205-216: execute returned, its connections are merged
FindTopCollect ==
    /\ ftPc = "await"
    /\ exPc = "done"
    /\ exStatus = "returned"
    /\ LET merged == KeepNewPairs(exResult, processedPairs, allConnections)
       IN  /\ processedPairs' = merged.processedPairs
           /\ allConnections' = merged.allConnections
    /\ ftNext' = ftNext + 1
    /\ ftPc' = "next"
    /\ ExIdle
    /\ UNCHANGED <<limit, sampledNoteIds, ftStatus, ftResult>>
    /\ UNCHANGED <<pluginVars, fnVars, envVars, svcVars, deepOptions, dpVars>>

\* line 205: execute threw, and nothing catches it
FindTopThrow ==
    /\ ftPc = "await"
    /\ exPc = "done"
    /\ exStatus = "threw"
    /\ ftStatus' = "threw"
    /\ ftPc' = "done"
    /\ UNCHANGED <<limit, sampledNoteIds, ftNext, processedPairs, allConnections,
                   ftResult>>
    /\ UNCHANGED <<pluginVars, fnVars, envVars, svcVars, exVars, deepOptions, dpVars>>

\* lines 219-222
FindTopReturn ==
    /\ ftPc = "next"
    /\ ftNext > Len(sampledNoteIds)
    /\ ftResult' = RankAndTruncate(allConnections, limit)
    /\ ftStatus' = "returned"
    /\ ftPc' = "done"
    /\ UNCHANGED <<limit, sampledNoteIds, ftNext, processedPairs, allConnections>>
    /\ UNCHANGED <<pluginVars, fnVars, envVars, svcVars, exVars, deepOptions, dpVars>>

(***************************************************************************)
(* DeepSerendipityUseCase                                                  *)
(***************************************************************************)
\* the number of notes sampleCrossDomainPairs takes from each group
GroupSampleSize == 3

Deep_isIncludedPath(path) ==
    IF Len(deepOptions.includeFolders) = 0 THEN TRUE
    ELSE UnderSomeFolder(path, deepOptions.includeFolders)

Deep_isExcludedPath(path) == UnderSomeFolder(path, deepOptions.excludeFolders)

\* the body of the loop of groupNotesByDomain for one note: the NoteDomain it
\* adds to a group, in a list; the empty list when the note is passed over
GroupedNote(entry) ==
    LET path == PathIn(DeepClassifier, entry.noteId)
    IN  IF path = None THEN <<>>
        ELSE IF ~Deep_isIncludedPath(path) \/ Deep_isExcludedPath(path) THEN <<>>
        ELSE classifyNoteIn(DeepClassifier, entry.noteId)  \* a throw is caught

\* a grouping that opens a group for every note
AddToGroup_Always(groups, note) ==
    Append(groups, [domain |-> note.primaryDomain, notes |-> <<note>>])

\* domainGroups after the note is added: the Map as the list of its entries
AddToGroup(groups, note) ==
    IF \E g \in 1..Len(groups) : groups[g].domain = note.primaryDomain
    THEN [g \in 1..Len(groups) |->
            IF groups[g].domain = note.primaryDomain
            THEN [groups[g] EXCEPT !.notes = Append(@, note)]
            ELSE groups[g]]
    ELSE Append(groups, [domain |-> note.primaryDomain, notes |-> <<note>>])

RECURSIVE GroupFrom(_, _)
GroupFrom(entries, groups) ==
    IF entries = <<>> THEN groups
    ELSE LET grouped == GroupedNote(Head(entries))
         IN  GroupFrom(Tail(entries),
                       IF grouped = <<>> THEN groups ELSE AddToGroup(groups, grouped[1]))

groupNotesByDomain(embeddings) == GroupFrom(embeddings, <<>>)

\* the arrangements of k different positions of 1..n
Arrangements(n, k) ==
    {pick \in [1..k -> 1..n] : \A i, j \in 1..k : i # j => pick[i] # pick[j]}

\* a sampling that keeps the whole array
Deep_sampleArray_Whole(array, size) == {array}

\* sampleArray of the deep use case: the array itself when it is no longer than
\* size, else any arrangement of size of its elements
Deep_sampleArray(array, size) ==
    IF Len(array) <= size THEN {array}
    ELSE {[i \in 1..size |-> array[pick[i]]] : pick \in Arrangements(Len(array), size)}

\* lines 529-537: the cross product of two samples
CrossPairs(notes1, notes2) ==
    [k \in 1..(Len(notes1) * Len(notes2)) |->
        [source |-> notes1[((k - 1) \div Len(notes2)) + 1],
         target |-> notes2[((k - 1) % Len(notes2)) + 1],
         domainDistance |-> One]]

\* lines 514-539: the lists of pairs the two loops can build from groups i, j on
RECURSIVE PairListsFrom(_, _, _)
PairListsFrom(groups, i, j) ==
    IF i > Len(groups) THEN {<<>>}
    ELSE IF j > Len(groups) THEN PairListsFrom(groups, i + 1, i + 2)
    ELSE {CrossPairs(s1, s2) \o rest :
            s1 \in Deep_sampleArray(groups[i].notes, GroupSampleSize),
            s2 \in Deep_sampleArray(groups[j].notes, GroupSampleSize),
            rest \in PairListsFrom(groups, i, j + 1)}

\* the shuffle without the cut
ShuffledAndCut_NoCut(pairs, max) ==
    {[i \in 1..Len(pairs) |-> pairs[pick[i]]] :
        pick \in Arrangements(Len(pairs), Len(pairs))}

\* lines 541-543: pairs.sort(() => Math.random() - 0.5).slice(0, max)
ShuffledAndCut(pairs, max) ==
    {[i \in 1..Min(Len(pairs), Max(max, 0)) |-> pairs[pick[i]]] :
        pick \in Arrangements(Len(pairs), Min(Len(pairs), Max(max, 0)))}

\* sampleCrossDomainPairs: the lists it can return
sampleCrossDomainPairs(domainGroups) ==
    IF Len(domainGroups) < 2 THEN {<<>>}
    ELSE UNION {ShuffledAndCut(pairs, deepOptions.maxPairsToEvaluate) :
                    pairs \in PairListsFrom(domainGroups, 1, 2)}

\* --- parseEvaluationResponse ---------------------------------------------
MarkerPossible == <<"C","O","N","N","E","C","T","I","O","N","_","P","O","S","S","I","B","L","E",":">>

MarkerScore == <<"Q","U","A","L","I","T","Y","_","S","C","O","R","E",":">>

MarkerAnalogy == <<"A","N","A","L","O","G","Y",":">>

Yes == <<"Y","E","S">>

WhiteSpace == {" ", "\t", "\n", "\r"}

\* String.prototype.trim
RECURSIVE TrimStart(_)
TrimStart(str) ==
    IF str # <<>> /\ Head(str) \in WhiteSpace THEN TrimStart(Tail(str)) ELSE str

RECURSIVE TrimEnd(_)
TrimEnd(str) ==
    IF str # <<>> /\ str[Len(str)] \in WhiteSpace
    THEN TrimEnd(SubSeq(str, 1, Len(str) - 1)) ELSE str

Trim(str) == TrimEnd(TrimStart(str))

\* String.prototype.indexOf, from 0; -1 when sub does not occur
IndexOf(str, sub) ==
    LET at == {i \in 0..(Len(str) - Len(sub)) : SubSeq(str, i + 1, i + Len(sub)) = sub}
    IN  IF at = {} THEN 0 - 1 ELSE CHOOSE i \in at : \A j \in at : i <= j

\* the longest prefix of str made of the characters of set
RECURSIVE PrefixIn(_, _)
PrefixIn(str, set) ==
    IF str # <<>> /\ Head(str) \in set
    THEN <<Head(str)>> \o PrefixIn(Tail(str), set) ELSE <<>>

\* trimmed.match(/[\d.]+/): the first run of digits and dots, in a list; the
\* empty list when there is none
RECURSIVE MatchNumeric(_)
MatchNumeric(str) ==
    IF str = <<>> THEN <<>>
    ELSE IF Head(str) \in DigitChars \cup {"."}
    THEN << PrefixIn(str, DigitChars \cup {"."}) >>
    ELSE MatchNumeric(Tail(str))

DigitValue(c) == CharCode(c) - CharCode("0")

RECURSIVE DigitsValue(_)
DigitsValue(digits) ==
    IF digits = <<>> THEN 0
    ELSE DigitsValue(SubSeq(digits, 1, Len(digits) - 1)) * 10
             + DigitValue(digits[Len(digits)])

RECURSIVE Pow10(_)
Pow10(n) == IF n = 0 THEN 1 ELSE 10 * Pow10(n - 1)

\* the value that is not a number; every comparison with it is false
NaN == 0 - 1

\* parseFloat of a run of digits and dots, in 1/Scale (rounded down): the
\* digits, and the digits after a first dot; NaN when there is no digit
parseFloat(str) ==
    LET whole == PrefixIn(str, DigitChars)
        rest == SubSeq(str, Len(whole) + 1, Len(str))
        fraction == IF rest # <<>> /\ Head(rest) = "."
                    THEN PrefixIn(Tail(rest), DigitChars) ELSE <<>>
    IN  IF whole = <<>> /\ fraction = <<>> THEN NaN
        ELSE DigitsValue(whole) * One
                 + (DigitsValue(fraction) * One) \div Pow10(Len(fraction))

\* Math.min(1.0, Math.max(0, x)): NaN stays NaN
ClampQuality(x) == IF x = NaN THEN NaN ELSE Min(One, Max(0, x))

\* lines 651-664: the fields after one more line
ParseLine(fields, line) ==
    LET trimmed == Trim(line)
    IN  IF StartsWith(trimmed, MarkerPossible)
        THEN [fields EXCEPT !.connectionPossible = Includes(trimmed, Yes)]
        ELSE IF StartsWith(trimmed, MarkerScore)
        THEN LET match == MatchNumeric(trimmed)
             IN  IF match # <<>>
                 THEN [fields EXCEPT !.qualityScore = ClampQuality(parseFloat(match[1]))]
                 ELSE fields
        ELSE IF StartsWith(trimmed, MarkerAnalogy)
        THEN [fields EXCEPT !.analogy = Trim(Slice(trimmed, Len(MarkerAnalogy)))]
        ELSE fields

RECURSIVE ParseLines(_, _)
ParseLines(fields, lines) ==
    IF lines = <<>> THEN fields
    ELSE ParseLines(ParseLine(fields, Head(lines)), Tail(lines))

parseEvaluationResponse(content) ==
    LET fields == ParseLines([connectionPossible |-> FALSE, qualityScore |-> 0,
                              analogy |-> <<>>],
                             Split(content, "\n"))
        analogyIndex == IndexOf(content, MarkerAnalogy)
    IN  IF fields.analogy = <<>> /\ analogyIndex # 0 - 1
        THEN [fields EXCEPT !.analogy = Trim(Slice(content, analogyIndex + 8))]
        ELSE fields

\* --- the evaluator -------------------------------------------------------
ContentYes8 ==
    <<"C","O","N","N","E","C","T","I","O","N","_","P","O","S","S","I","B","L",
      "E",":"," ","Y","E","S","\n","Q","U","A","L","I","T","Y","_","S","C",
      "O","R","E",":"," ","0",".","8","\n","A","N","A","L","O","G","Y",":",
      " ","a","b">>

ContentYes3 ==
    <<"C","O","N","N","E","C","T","I","O","N","_","P","O","S","S","I","B","L",
      "E",":"," ","Y","E","S","\n","Q","U","A","L","I","T","Y","_","S","C",
      "O","R","E",":"," ","0",".","3","\n","A","N","A","L","O","G","Y",":",
      " ","c">>

ContentNo ==
    <<"C","O","N","N","E","C","T","I","O","N","_","P","O","S","S","I","B","L",
      "E",":"," ","N","O","\n","Q","U","A","L","I","T","Y","_","S","C","O",
      "R","E",":"," ","0",".","9","\n","A","N","A","L","O","G","Y",":"," ",
      "d">>

\* what aiService.simpleGenerate can answer; "threw" when it throws
EvaluatorAnswers ==
    { [kind |-> "response", success |-> TRUE, content |-> ContentYes8],
      [kind |-> "response", success |-> TRUE, content |-> ContentYes3],
      [kind |-> "response", success |-> TRUE, content |-> ContentNo],
      [kind |-> "response", success |-> FALSE, content |-> <<>>],
      [kind |-> "response", success |-> TRUE, content |-> <<>>],
      [kind |-> "threw", success |-> FALSE, content |-> <<>>] }

\* an evaluation that takes a failure for an affirmative answer
Evaluation_FailureKept(answer) ==
    IF answer.kind = "threw" \/ ~answer.success \/ answer.content = <<>>
    THEN << [connectionPossible |-> TRUE, qualityScore |-> One, analogy |-> <<>>] >>
    ELSE << parseEvaluationResponse(answer.content) >>

\* lines 587-593: evaluateSinglePair once the evaluator answered; the
\* evaluation in a list, the empty list when the call threw
Evaluation(answer) ==
    IF answer.kind = "threw" THEN <<>>
    ELSE IF ~answer.success \/ answer.content = <<>>
    THEN << [connectionPossible |-> FALSE, qualityScore |-> 0, analogy |-> <<>>] >>
    ELSE << parseEvaluationResponse(answer.content) >>

\* lines 556-571: what one evaluated pair adds to results
EvaluatedPair(pair, evaluation) ==
    IF evaluation = <<>> THEN <<>>                 \* caught: the pair is skipped
    ELSE IF evaluation[1].connectionPossible
            /\ evaluation[1].qualityScore # NaN /\ evaluation[1].qualityScore > 0
    THEN << [sourceNote |-> pair.source,
             targetNote |-> pair.target,
             creativityScore |-> evaluation[1].qualityScore,
             analogy |-> evaluation[1].analogy,
             domainDistance |-> pair.domainDistance] >>
    ELSE <<>>

\* filter(conn => conn.creativityScore >= minQualityScore)
RECURSIVE AtLeastQuality(_, _)
AtLeastQuality(conns, min) ==
    IF conns = <<>> THEN <<>>
    ELSE (IF Head(conns).creativityScore >= min THEN <<Head(conns)>> ELSE <<>>)
         \o AtLeastQuality(Tail(conns), min)

\* sort((a, b) => b.creativityScore - a.creativityScore): stable, highest first
RECURSIVE InsertByQuality(_, _)
InsertByQuality(sorted, conn) ==
    IF sorted = <<>> THEN <<conn>>
    ELSE IF Head(sorted).creativityScore >= conn.creativityScore
    THEN <<Head(sorted)>> \o InsertByQuality(Tail(sorted), conn)
    ELSE <<conn>> \o sorted

RECURSIVE SortByQuality(_)
SortByQuality(conns) ==
    IF conns = <<>> THEN <<>>
    ELSE InsertByQuality(SortByQuality(SubSeq(conns, 1, Len(conns) - 1)),
                         conns[Len(conns)])

\* the sort and the cut without the filter
DeepRank_NoFilter(conns) == Take(SortByQuality(conns), deepOptions.maxResults)

\* lines 455-459
DeepRank(conns) ==
    Take(SortByQuality(AtLeastQuality(conns, deepOptions.minQualityScore)),
         deepOptions.maxResults)

(***************************************************************************)
(* Actions: DeepSerendipityUseCase.execute                                 *)
(***************************************************************************)
\* lines 431-449: the notes are grouped and the pairs sampled
DeepExecute ==
    /\ NoOperation
    /\ \E pairs \in sampleCrossDomainPairs(groupNotesByDomain(getAllEmbeddings)) :
          /\ candidatePairs' = pairs
          /\ IF Len(pairs) = 0
             THEN /\ dpPc' = "done"                \* return []
                  /\ dpStatus' = "returned"
             ELSE /\ dpPc' = "evaluate"
                  /\ dpStatus' = "running"
    /\ dpNext' = 1
    /\ results' = <<>>
    /\ dpResult' = <<>>
    /\ requests' = <<>>
    /\ answers' = <<>>
    /\ ExIdle
    /\ FtIdle
    /\ UNCHANGED <<pluginVars, fnVars, envVars, svcVars, deepOptions>>

\* a request that does not wait for the answer to the one before
DeepRequest_NoAwait ==
    /\ dpPc \in {"evaluate", "await"}
    /\ Len(requests) < Len(candidatePairs)
    /\ requests' = Append(requests, <<candidatePairs[Len(requests) + 1].source.noteId,
                                      candidatePairs[Len(requests) + 1].target.noteId>>)
    /\ dpPc' = "await"
    /\ UNCHANGED <<candidatePairs, dpNext, results, dpStatus, dpResult, answers>>
    /\ UNCHANGED <<pluginVars, fnVars, envVars, svcVars, exVars, ftVars, deepOptions>>

\* line 587: the request for the next pair goes to the evaluator
DeepRequest ==
    /\ dpPc = "evaluate"
    /\ dpNext <= Len(candidatePairs)
    /\ requests' = Append(requests, <<candidatePairs[dpNext].source.noteId,
                                      candidatePairs[dpNext].target.noteId>>)
    /\ dpPc' = "await"
    /\ UNCHANGED <<candidatePairs, dpNext, results, dpStatus, dpResult, answers>>
    /\ UNCHANGED <<pluginVars, fnVars, envVars, svcVars, exVars, ftVars, deepOptions>>

\* lines 556-572: the evaluator answered, or threw
DeepAnswer(answer) ==
    /\ dpPc = "await"
    /\ results' = results \o EvaluatedPair(candidatePairs[dpNext], Evaluation(answer))
    /\ dpNext' = dpNext + 1
    /\ answers' = Append(answers, answer)
    /\ dpPc' = "evaluate"
    /\ UNCHANGED <<candidatePairs, dpStatus, dpResult, requests>>
    /\ UNCHANGED <<pluginVars, fnVars, envVars, svcVars, exVars, ftVars, deepOptions>>

\* lines 452-459: every pair is evaluated, execute returns
DeepReturn ==
    /\ dpPc = "evaluate"
    /\ dpNext > Len(candidatePairs)
    /\ dpResult' = DeepRank(results)
    /\ dpStatus' = "returned"
    /\ dpPc' = "done"
    /\ UNCHANGED <<candidatePairs, dpNext, results, requests, answers>>
    /\ UNCHANGED <<pluginVars, fnVars, envVars, svcVars, exVars, ftVars, deepOptions>>

(***************************************************************************)
(* Settings and the persisted data of the plugin                           *)
(***************************************************************************)
\* the objects settings can refer to: those of DEFAULT_SETTINGS (D) and those
\* migrateSettings and the JSON of data.json make for the plugin (S)
Cells == {"D.ai", "D.apiKeys", "D.discovery", "D.advanced",
          "S.ai", "S.apiKeys", "S.discovery", "S.advanced"}

\* DEFAULT_SETTINGS as shipped; apiKeys is the set of <<provider, key>>
ShippedAi == [provider |-> "openai", apiKeys |-> "D.apiKeys", model |-> "gpt-4o-mini"]

ShippedDiscovery ==
    [minSimilarity |-> One \div 2,
     minSerendipityScore |-> (4 * One) \div 10,
     maxResults |-> 10,
     excludeFolders |-> <<<<"t","e","m","p","l","a","t","e","s">>,
                          <<"a","t","t","a","c","h","m","e","n","t","s">>,
                          <<"0","9","_","E","m","b","e","d","d","e","d">>>>,
     includeFolders |-> <<<<"0","4","_","Z","e","t","t","e","l","k","a","s","t","e","n">>>>,
     deepMaxPairs |-> 30,
     deepMinQuality |-> One \div 2]

ShippedAdvanced ==
    [classificationMethod |-> "tag",
     domainTagPrefixes |-> <<<<"d","o","m","a","i","n","/">>, <<"t","o","p","i","c","/">>>>,
     debugMode |-> FALSE]

\* the heap when the module is loaded
ShippedHeap ==
    [c \in Cells |->
        CASE c \in {"D.ai", "S.ai"} -> ShippedAi
          [] c \in {"D.apiKeys", "S.apiKeys"} -> {}
          [] c \in {"D.discovery", "S.discovery"} -> ShippedDiscovery
          [] c \in {"D.advanced", "S.advanced"} -> ShippedAdvanced]

\* DEFAULT_SETTINGS: the object of the three sections
DEFAULT_SETTINGS == [ai |-> "D.ai", discovery |-> "D.discovery", advanced |-> "D.advanced"]

\* data.json without any key
EmptyData ==
    [ai |-> <<>>, discovery |-> <<>>, advanced |-> <<>>,
     serendipityCache |-> <<>>, deepSerendipityCache |-> <<>>]

\* migrateSettings(oldSettings): the heap and the settings object after it.  A
\* section of the old settings gives a new object; its fields hide those of the
\* default section.  Without ai in the old settings the new ai object keeps
\* DEFAULT_SETTINGS.ai.apiKeys itself.  The other keys of the old settings are
\* copied as they are.
migrateSettings(h, old) ==
    [heap |->
        [h EXCEPT
            !["S.ai"] = IF old.ai = <<>> THEN h["D.ai"]
                        ELSE [provider |-> old.ai[1].provider,
                              apiKeys |-> "S.apiKeys",
                              model |-> old.ai[1].model],
            !["S.apiKeys"] = IF old.ai = <<>> THEN @ ELSE old.ai[1].apiKeys,
            !["S.discovery"] = IF old.discovery = <<>> THEN h["D.discovery"]
                               ELSE old.discovery[1],
            !["S.advanced"] = IF old.advanced = <<>> THEN h["D.advanced"]
                              ELSE old.advanced[1]],
     settings |->
        [ai |-> "S.ai", discovery |-> "S.discovery", advanced |-> "S.advanced",
         serendipityCache |-> old.serendipityCache,
         deepSerendipityCache |-> old.deepSerendipityCache]]

\* loadSettings: migrateSettings(data || {})
loadSettings(h, d) == migrateSettings(h, IF d = <<>> THEN EmptyData ELSE d[1])

\* the JSON saveData writes for the settings object
SettingsJson(h, s) ==
    [ai |-> << [provider |-> h[s.ai].provider,
                apiKeys |-> h[h[s.ai].apiKeys],
                model |-> h[s.ai].model] >>,
     discovery |-> << h[s.discovery] >>,
     advanced |-> << h[s.advanced] >>,
     serendipityCache |-> s.serendipityCache,
     deepSerendipityCache |-> s.deepSerendipityCache]

\* --- the persisted form of a connection -----------------------------------
\* JSON.stringify of a connection: a value object becomes the plain object
\* {value}, here the list of its value; the date becomes its ISO string
ConnectionJson(conn) ==
    [sourceNote |-> conn.sourceNote,
     targetNote |-> conn.targetNote,
     serendipityScore |-> <<conn.serendipityScore>>,
     domainDistance |-> <<conn.domainDistance>>,
     similarity |-> conn.similarity,
     connectionType |-> conn.connectionType,
     discoveredAt |-> [iso |-> conn.discoveredAt]]

\* a hydration that reads the two plain objects as numbers: it finds no value
hydrateConnection_NoValue(plain) ==
    [sourceNote |-> plain.sourceNote,
     targetNote |-> plain.targetNote,
     serendipityScore |-> SerendipityScore_fromValue(0),
     domainDistance |-> DomainDistance_fromValue(0),
     similarity |-> plain.similarity,
     connectionType |-> plain.connectionType,
     discoveredAt |-> plain.discoveredAt.iso]

\* hydrateConnection: `?.value ?? 0` and fromValue for the two value objects,
\* new Date for the date
hydrateConnection(plain) ==
    LET serendipityValue == IF plain.serendipityScore = <<>> THEN 0
                            ELSE plain.serendipityScore[1]
        domainDistanceValue == IF plain.domainDistance = <<>> THEN 0
                               ELSE plain.domainDistance[1]
    IN  [sourceNote |-> plain.sourceNote,
         targetNote |-> plain.targetNote,
         serendipityScore |-> SerendipityScore_fromValue(serendipityValue),
         domainDistance |-> DomainDistance_fromValue(domainDistanceValue),
         similarity |-> plain.similarity,
         connectionType |-> plain.connectionType,
         discoveredAt |-> plain.discoveredAt.iso]

\* JSON.stringify of a SerendipityCache
SerendipityCacheJson(cache) ==
    [connections |-> [i \in 1..Len(cache.connections) |->
                         ConnectionJson(cache.connections[i])],
     timestamp |-> cache.timestamp]

\* hydrateSerendipityCache
hydrateSerendipityCache(plain) ==
    [connections |-> [i \in 1..Len(plain.connections) |->
                         hydrateConnection(plain.connections[i])],
     timestamp |-> plain.timestamp]

\* settings.ai.apiKeys[settings.ai.provider], the empty list when there is none
CurrentApiKey(h, s) ==
    LET keys == {pair \in h[h[s.ai].apiKeys] : pair[1] = h[s.ai].provider /\ pair[2] # ""}
    IN  IF keys = {} THEN <<>> ELSE <<(CHOOSE pair \in keys : TRUE)[2]>>

\* the options the use cases are built with (main.ts 87-99 and 72-83)
DiscoverOptions(h, s) ==
    [minSimilarity |-> h[s.discovery].minSimilarity,
     minSerendipityScore |-> h[s.discovery].minSerendipityScore,
     maxResults |-> h[s.discovery].maxResults,
     excludeFolders |-> h[s.discovery].excludeFolders,
     includeFolders |-> h[s.discovery].includeFolders]

DeepOptions(h, s) ==
    [maxPairsToEvaluate |-> h[s.discovery].deepMaxPairs,
     minQualityScore |-> h[s.discovery].deepMinQuality,
     maxResults |-> h[s.discovery].maxResults,
     includeFolders |-> h[s.discovery].includeFolders,
     excludeFolders |-> h[s.discovery].excludeFolders]

ClassifierSettings(h, s) ==
    [method |-> h[s.advanced].classificationMethod,
     domainTagPrefixes |-> h[s.advanced].domainTagPrefixes]

\* deepSerendipityUseCase = null
NoUseCase == <<>>

\* the ai section of a user who entered a key for the default provider
ConfiguredAi == [provider |-> "openai", apiKeys |-> {<<"openai", "key-1">>},
                 model |-> "gpt-4o-mini"]

\* no leaf shows the sidebar view
ViewClosed == [open |-> FALSE, useCase |-> <<>>]

\* the flows of the serendipity modal that store and clear a cache: the
\* standard search and the deep search
Flows == {"standard", "deep"}

\* no cache operation is between its load and its save
NoCacheOps == [flow \in Flows |-> <<>>]

\* the plugin after onload found data.json with these three sections
LoadedWith(ai, discovery, advanced) ==
    LET found == [EmptyData EXCEPT !.ai = <<ai>>,
                                   !.discovery = <<discovery>>,
                                   !.advanced = <<advanced>>]
        loaded == loadSettings(ShippedHeap, <<found>>)
    IN  /\ data = <<found>>
        /\ heap = loaded.heap
        /\ settings = loaded.settings
        /\ stored = [standard |-> <<>>, deep |-> <<>>]
        /\ cacheOps = NoCacheOps
        /\ view = ViewClosed
        /\ deepService = <<>>

\* no function was applied
NoCall == fnCall = [fn |-> "none"] /\ fnResult = <<>>

(***************************************************************************)
(* Actions: the settings tab, the caches of the modal, the plugin          *)
(***************************************************************************)
\* getSerendipityCache: the hydrated cache in a list, the empty list for null
getSerendipityCache(d) ==
    IF d = <<>> THEN <<>>
    ELSE IF d[1].serendipityCache = <<>> THEN <<>>
    ELSE << hydrateSerendipityCache(d[1].serendipityCache[1]) >>

\* getDeepSerendipityCache: the cache as it was parsed
getDeepSerendipityCache(d) ==
    IF d = <<>> THEN <<>> ELSE d[1].deepSerendipityCache

\* saveSettings (lines 172-227) with the settings object s on the heap h: the
\* settings object is written as the whole of data.json, the deep use case is
\* built when there is a key for the provider, the classification service and
\* the discover use case are built anew
saveSettings(h, s) ==
    /\ data' = << SettingsJson(h, s) >>
    /\ deepOptions' = IF CurrentApiKey(h, s) # <<>> THEN DeepOptions(h, s) ELSE NoUseCase
    /\ classification' = ClassifierSettings(h, s)
    /\ noteIdToPath' = buildNoteIdIndex(vault)
    /\ options' = DiscoverOptions(h, s)
    \* lines 184-196 run before line 204 replaces this.classificationService
    /\ deepService' = IF CurrentApiKey(h, s) # <<>> THEN << PluginService >> ELSE <<>>
    \* lines 214-226 assign a new use case to the plugin; an open view keeps
    \* the use case its constructor was given
    /\ view' = IF view.open /\ view.useCase = <<>>
               THEN [view EXCEPT !.useCase = << [options |-> options,
                                                 service |-> PluginService] >>]
               ELSE view

\* the slider of the minimum similarity (part_002 27-30)
ChangeMinSimilarity(value) ==
    /\ NoOperation
    /\ heap' = [heap EXCEPT ![settings.discovery].minSimilarity = value]
    /\ saveSettings(heap', settings)
    /\ UNCHANGED <<settings, stored, cacheOps>>
    /\ UNCHANGED <<envVars, exVars, ftVars, dpVars, fnVars>>

\* the text field of the API key (part_001 109-112)
ChangeApiKey(key) ==
    /\ NoOperation
    /\ heap' = [heap EXCEPT ![heap[settings.ai].apiKeys] =
                   {pair \in @ : pair[1] # heap[settings.ai].provider}
                       \cup {<<heap[settings.ai].provider, key>>}]
    /\ saveSettings(heap', settings)
    /\ UNCHANGED <<settings, stored, cacheOps>>
    /\ UNCHANGED <<envVars, exVars, ftVars, dpVars, fnVars>>

\* the dropdown of the classification method (advanced-section.ts 29-33)
ChangeClassificationMethod(method) ==
    /\ NoOperation
    /\ heap' = [heap EXCEPT ![settings.advanced].classificationMethod = method]
    /\ saveSettings(heap', settings)
    /\ UNCHANGED <<settings, stored, cacheOps>>
    /\ UNCHANGED <<envVars, exVars, ftVars, dpVars, fnVars>>

\* resetSettings (lines 229-232): { ...DEFAULT_SETTINGS } has the three section
\* objects of DEFAULT_SETTINGS themselves, and no other key
ResetSettings ==
    /\ NoOperation
    /\ settings' = [ai |-> DEFAULT_SETTINGS.ai,
                    discovery |-> DEFAULT_SETTINGS.discovery,
                    advanced |-> DEFAULT_SETTINGS.advanced,
                    serendipityCache |-> <<>>,
                    deepSerendipityCache |-> <<>>]
    /\ saveSettings(heap, settings')
    /\ UNCHANGED <<heap, stored, cacheOps>>
    /\ UNCHANGED <<envVars, exVars, ftVars, dpVars, fnVars>>

\* loadData() || {}
LoadedData == IF data = <<>> THEN EmptyData ELSE data[1]

setSerendipityCache(cache) ==
    /\ data' = << [LoadedData EXCEPT !.serendipityCache = <<SerendipityCacheJson(cache)>>] >>
    /\ stored' = [stored EXCEPT !.standard = <<cache>>]
    /\ UNCHANGED <<heap, settings, deepService, cacheOps, view>>
    /\ UNCHANGED <<envVars, svcVars, exVars, ftVars, deepOptions, dpVars, fnVars>>

clearSerendipityCache ==
    /\ data' = << [LoadedData EXCEPT !.serendipityCache = <<>>] >>
    /\ stored' = [stored EXCEPT !.standard = <<>>]
    /\ UNCHANGED <<heap, settings, deepService, cacheOps, view>>
    /\ UNCHANGED <<envVars, svcVars, exVars, ftVars, deepOptions, dpVars, fnVars>>

setDeepSerendipityCache(cache) ==
    /\ data' = << [LoadedData EXCEPT !.deepSerendipityCache = <<cache>>] >>
    /\ stored' = [stored EXCEPT !.deep = <<cache>>]
    /\ UNCHANGED <<heap, settings, deepService, cacheOps, view>>
    /\ UNCHANGED <<envVars, svcVars, exVars, ftVars, deepOptions, dpVars, fnVars>>

clearDeepSerendipityCache ==
    /\ data' = << [LoadedData EXCEPT !.deepSerendipityCache = <<>>] >>
    /\ stored' = [stored EXCEPT !.deep = <<>>]
    /\ UNCHANGED <<heap, settings, deepService, cacheOps, view>>
    /\ UNCHANGED <<envVars, svcVars, exVars, ftVars, deepOptions, dpVars, fnVars>>

\* `const data = (await this.loadData() || {})` of a cache operation: the
\* operation holds what it read until its saveData
CacheLoad(flow, method, cache) ==
    /\ cacheOps[flow] = <<>>
    /\ cacheOps' = [cacheOps EXCEPT
                       ![flow] = << [method |-> method, cache |-> cache,
                                     loaded |-> LoadedData] >>]
    /\ UNCHANGED <<heap, settings, data, stored, deepService, view>>
    /\ UNCHANGED <<envVars, svcVars, exVars, ftVars, deepOptions, dpVars, fnVars>>

\* the object a cache operation passes to saveData: what it read, with its
\* own key set or deleted
CacheSaved(op) ==
    IF op.method = "setSerendipityCache"
    THEN [op.loaded EXCEPT !.serendipityCache = <<SerendipityCacheJson(op.cache[1])>>]
    ELSE IF op.method = "clearSerendipityCache"
    THEN [op.loaded EXCEPT !.serendipityCache = <<>>]
    ELSE IF op.method = "setDeepSerendipityCache"
    THEN [op.loaded EXCEPT !.deepSerendipityCache = op.cache]
    ELSE [op.loaded EXCEPT !.deepSerendipityCache = <<>>]

\* `await this.saveData(data)` of a cache operation
CacheSave(flow) ==
    /\ cacheOps[flow] # <<>>
    /\ data' = << CacheSaved(cacheOps[flow][1]) >>
    /\ stored' = IF flow = "standard"
                 THEN [stored EXCEPT !.standard = cacheOps[flow][1].cache]
                 ELSE [stored EXCEPT !.deep = cacheOps[flow][1].cache]
    /\ cacheOps' = [cacheOps EXCEPT ![flow] = <<>>]
    /\ UNCHANGED <<heap, settings, deepService, view>>
    /\ UNCHANGED <<envVars, svcVars, exVars, ftVars, deepOptions, dpVars, fnVars>>

\* the factory of registerView (lines 102-109): the new CDCMainView is given
\* this.discoverUseCase as it is when the view is created
OpenView ==
    /\ NoOperation
    /\ ~view.open
    /\ view' = [open |-> TRUE, useCase |-> <<>>]
    /\ UNCHANGED <<heap, settings, data, stored, deepService, cacheOps>>
    /\ UNCHANGED <<envVars, svcVars, exVars, ftVars, deepOptions, dpVars, fnVars>>

\* the leaf of the view is closed
CloseView ==
    /\ NoOperation
    /\ view.open
    /\ view' = ViewClosed
    /\ UNCHANGED <<heap, settings, data, stored, deepService, cacheOps>>
    /\ UNCHANGED <<envVars, svcVars, exVars, ftVars, deepOptions, dpVars, fnVars>>

\* this.discoverUseCase of the open view (main-view.ts 24), which
\* discoverConnections runs and openSerendipityMode hands to the modal: its
\* options and its classification service
ViewUseCase ==
    IF view.useCase = <<>> THEN [options |-> options, service |-> PluginService]
    ELSE view.useCase[1]

\* the plugin after onload (lines 59-99): the services and use cases are built
\* from the settings
Onloaded(h, s) ==
    /\ heap = h
    /\ settings = s
    /\ noteIdToPath = buildNoteIdIndex(VaultFiles)
    /\ classification = ClassifierSettings(h, s)
    /\ options = DiscoverOptions(h, s)
    /\ deepOptions = IF CurrentApiKey(h, s) # <<>> THEN DeepOptions(h, s) ELSE NoUseCase
    /\ deepService = <<>>

\* the application is started again: the module is evaluated anew, onload
\* reads data.json
Restart ==
    /\ NoOperation
    /\ LET loaded == loadSettings(ShippedHeap, data)
       IN  /\ heap' = loaded.heap
           /\ settings' = loaded.settings
           /\ noteIdToPath' = buildNoteIdIndex(vault)
           /\ classification' = ClassifierSettings(loaded.heap, loaded.settings)
           /\ options' = DiscoverOptions(loaded.heap, loaded.settings)
           /\ deepOptions' = IF CurrentApiKey(loaded.heap, loaded.settings) # <<>>
                             THEN DeepOptions(loaded.heap, loaded.settings)
                             ELSE NoUseCase
    /\ deepService' = <<>>
    /\ view' = ViewClosed
    /\ UNCHANGED <<data, stored, cacheOps>>
    /\ UNCHANGED <<envVars, exVars, ftVars, dpVars, fnVars>>

(***************************************************************************)
(* The specification of the standard discovery engine                      *)
(***************************************************************************)
\* the thresholds the use case can be built with, in 1/Scale
Thresholds == {0, (4 * One) \div 5}

MaxResultsChoices == {2, 10}

Limits == {1, 10}

\* the state of the three operations before any of them ran
NothingRan ==
    /\ exPc = "idle"
    /\ exCaller = "view"
    /\ sourceNoteId = <<0, 0>>
    /\ sourceEmbedding = <<>>
    /\ sourceNoteDomain = <<>>
    /\ allEmbeddings = <<>>
    /\ exNext = 1
    /\ candidates = <<>>
    /\ exStatus = "running"
    /\ exResult = <<>>
    /\ ftPc = "idle"
    /\ limit = 0
    /\ sampledNoteIds = <<>>
    /\ ftNext = 1
    /\ processedPairs = {}
    /\ allConnections = <<>>
    /\ ftStatus = "running"
    /\ ftResult = <<>>
    /\ dpPc = "idle"
    /\ candidatePairs = <<>>
    /\ dpNext = 1
    /\ results = <<>>
    /\ dpStatus = "running"
    /\ dpResult = <<>>
    /\ requests = <<>>
    /\ answers = <<>>

\* the options of the use cases under DEFAULT_SETTINGS, but for the folder lists
DefaultOptions(folders) ==
    [minSimilarity |-> One \div 2,
     minSerendipityScore |-> (4 * One) \div 10,
     maxResults |-> 10,
     excludeFolders |-> folders.excludeFolders,
     includeFolders |-> folders.includeFolders]

DefaultDeepOptions(folders) ==
    [maxPairsToEvaluate |-> 30,
     minQualityScore |-> One \div 2,
     maxResults |-> 10,
     includeFolders |-> folders.includeFolders,
     excludeFolders |-> folders.excludeFolders]

Init ==
    /\ vault = VaultFiles
    /\ indexing = IndexBuilt(VaultFiles, buildNoteIdIndex(VaultFiles))
    /\ links \in LinkSets
    /\ embeddingFiles \in EmbeddingStores
    /\ noteIdToPath = buildNoteIdIndex(VaultFiles)
    /\ \E method \in ClassificationMethods :
          classification = [method |-> method, domainTagPrefixes |-> DomainTagPrefixes]
    /\ \E folders \in FolderLists, minSimilarity \in Thresholds,
          minSerendipityScore \in Thresholds, maxResults \in MaxResultsChoices :
          /\ options = [minSimilarity |-> minSimilarity,
                        minSerendipityScore |-> minSerendipityScore,
                        maxResults |-> maxResults,
                        excludeFolders |-> folders.excludeFolders,
                        includeFolders |-> folders.includeFolders]
          /\ deepOptions = [DefaultDeepOptions(folders) EXCEPT !.maxResults = maxResults]
          /\ LoadedWith(ConfiguredAi,
                        [ShippedDiscovery EXCEPT
                             !.minSimilarity = minSimilarity,
                             !.minSerendipityScore = minSerendipityScore,
                             !.maxResults = maxResults,
                             !.excludeFolders = folders.excludeFolders,
                             !.includeFolders = folders.includeFolders],
                         [ShippedAdvanced EXCEPT
                             !.classificationMethod = classification.method,
                             !.domainTagPrefixes = DomainTagPrefixes])
    /\ NothingRan
    /\ NoCall

Next ==
    \/ \E f \in vault : Execute(generateNoteId(f))
    \/ ExecuteScan
    \/ ExecuteReturn
    \/ \E n \in Limits : FindTop(n)
    \/ FindTopCall
    \/ FindTopCollect
    \/ FindTopThrow
    \/ FindTopReturn

Spec == Init /\ [][Next]_vars

(***************************************************************************)
(* The specification of the deep discovery engine                          *)
(***************************************************************************)
MaxPairsChoices == {1, 2}

\* deepMinQuality, in 1/Scale
MinQualityChoices == {One \div 5, One \div 2}

InitDeep ==
    /\ vault = VaultFiles
    /\ indexing = IndexBuilt(VaultFiles, buildNoteIdIndex(VaultFiles))
    /\ links = {}
    /\ embeddingFiles \in EmbeddingStores
    /\ noteIdToPath = buildNoteIdIndex(VaultFiles)
    /\ \E method \in ClassificationMethods :
          classification = [method |-> method, domainTagPrefixes |-> DomainTagPrefixes]
    /\ \E folders \in FolderLists, maxPairs \in MaxPairsChoices,
          minQuality \in MinQualityChoices, maxResults \in {1, 10} :
          /\ options = [DefaultOptions(folders) EXCEPT !.maxResults = maxResults]
          /\ deepOptions = [maxPairsToEvaluate |-> maxPairs,
                            minQualityScore |-> minQuality,
                            maxResults |-> maxResults,
                            includeFolders |-> folders.includeFolders,
                            excludeFolders |-> folders.excludeFolders]
          /\ LoadedWith(ConfiguredAi,
                        [ShippedDiscovery EXCEPT
                             !.deepMaxPairs = maxPairs,
                             !.deepMinQuality = minQuality,
                             !.maxResults = maxResults,
                             !.excludeFolders = folders.excludeFolders,
                             !.includeFolders = folders.includeFolders],
                         [ShippedAdvanced EXCEPT
                             !.classificationMethod = classification.method,
                             !.domainTagPrefixes = DomainTagPrefixes])
    /\ NothingRan
    /\ NoCall

NextDeep ==
    \/ DeepExecute
    \/ DeepRequest
    \/ \E answer \in EvaluatorAnswers : DeepAnswer(answer)
    \/ DeepReturn

SpecDeep == InitDeep /\ [][NextDeep]_vars

(***************************************************************************)
(* The specification of the value objects and of the response parser: each *)
(* step applies one of the functions to inputs of the sets below            *)
(***************************************************************************)
\* raw similarities, distances and values, in 1/Scale: below 0 and above 1 too
RawValues == {0 - One, 0 - 1, 0, One \div 4, One \div 2, One - 1, One, One + 1, 3 * One}

\* counts of generic terms
MaxGenericTerms == 7

\* lists of tags
TagLists ==
    {<<>>, <<"a">>, <<"b">>, <<"a", "a">>, <<"a", "b">>, <<"b", "a">>, <<"a", "b", "c">>,
     <<"c", "d">>}

\* paths
FolderPaths ==
    {<<>>, <<"a">>, <<"a","/","b">>, <<"a","/","c","/","d">>, <<"/","a","/","/","b","/">>, <<"x","/","y">>}

\* the lines of an answer of the evaluator; the empty line for a missing one
PossibleLines ==
    {<<>>, <<"C","O","N","N","E","C","T","I","O","N","_","P","O","S","S","I","B","L","E",":"," ","Y","E","S">>,
     <<"C","O","N","N","E","C","T","I","O","N","_","P","O","S","S","I","B","L","E",":"," ","N","O">>,
     <<" "," ","C","O","N","N","E","C","T","I","O","N","_","P","O","S","S","I","B","L","E",":"," ","y","e","s">>,
     <<"C","O","N","N","E","C","T","I","O","N","_","P","O","S","S","I","B","L","E",":"," ","N","O"," ","(","n","o","t"," ","Y","E","S",")">>}

ScoreLines ==
    {<<>>, <<"Q","U","A","L","I","T","Y","_","S","C","O","R","E",":"," ","0",".","8">>, <<"Q","U","A","L","I","T","Y","_","S","C","O","R","E",":"," ","1",".","5">>,
     <<"Q","U","A","L","I","T","Y","_","S","C","O","R","E",":"," ","-","0",".","5">>, <<"Q","U","A","L","I","T","Y","_","S","C","O","R","E",":"," ","n","/","a",".">>,
     <<" ","Q","U","A","L","I","T","Y","_","S","C","O","R","E",":"," ","h","i","g","h">>,
     <<"Q","U","A","L","I","T","Y","_","S","C","O","R","E",":"," ","7"," ","o","f"," ","1","0">>}

AnalogyLines ==
    {<<>>, <<"A","N","A","L","O","G","Y",":"," ","a","b"," ">>, <<"A","N","A","L","O","G","Y",":">>,
     <<"s","o"," ","A","N","A","L","O","G","Y",":"," ","c">>}

\* the answer made of the lines, in this order
RECURSIVE JoinLines(_)
JoinLines(lines) ==
    IF lines = <<>> THEN <<>>
    ELSE IF Len(lines) = 1 THEN lines[1]
    ELSE lines[1] \o <<"\n">> \o JoinLines(Tail(lines))

ApplyCalculate(similarity, domainDistance, linked, genericTermsCount) ==
    /\ NoCall
    /\ fnCall' = [fn |-> "calculate",
                  args |-> <<similarity, domainDistance, linked, genericTermsCount>>]
    /\ fnResult' = calculate(similarity, domainDistance, linked, genericTermsCount)
    /\ UNCHANGED <<envVars, svcVars, exVars, ftVars, deepOptions, dpVars, pluginVars>>

ApplyFromTagJaccard(tags1, tags2) ==
    /\ NoCall
    /\ fnCall' = [fn |-> "fromTagJaccard", args |-> <<tags1, tags2>>]
    /\ fnResult' = fromTagJaccard(tags1, tags2)
    /\ UNCHANGED <<envVars, svcVars, exVars, ftVars, deepOptions, dpVars, pluginVars>>

ApplyFromFolderPath(path1, path2) ==
    /\ NoCall
    /\ fnCall' = [fn |-> "fromFolderPath", args |-> <<path1, path2>>]
    /\ fnResult' = fromFolderPath(path1, path2)
    /\ UNCHANGED <<envVars, svcVars, exVars, ftVars, deepOptions, dpVars, pluginVars>>

ApplyDistanceFromValue(value) ==
    /\ NoCall
    /\ fnCall' = [fn |-> "DomainDistance.fromValue", args |-> <<value>>]
    /\ fnResult' = DomainDistance_fromValue(value)
    /\ UNCHANGED <<envVars, svcVars, exVars, ftVars, deepOptions, dpVars, pluginVars>>

\* the value in 1/ScoreOne
ApplyScoreFromValue(value) ==
    /\ NoCall
    /\ fnCall' = [fn |-> "SerendipityScore.fromValue", args |-> <<value>>]
    /\ fnResult' = SerendipityScore_fromValue(value)
    /\ UNCHANGED <<envVars, svcVars, exVars, ftVars, deepOptions, dpVars, pluginVars>>

ApplyParse(content) ==
    /\ NoCall
    /\ fnCall' = [fn |-> "parseEvaluationResponse", args |-> <<content>>]
    /\ fnResult' = parseEvaluationResponse(content)
    /\ UNCHANGED <<envVars, svcVars, exVars, ftVars, deepOptions, dpVars, pluginVars>>

\* the connection as the modal holds it: with the date of its discovery
Discovered(conn, at) ==
    [sourceNote |-> conn.sourceNote,
     targetNote |-> conn.targetNote,
     serendipityScore |-> conn.serendipityScore,
     domainDistance |-> conn.domainDistance,
     similarity |-> conn.similarity,
     connectionType |-> conn.connectionType,
     discoveredAt |-> at]

\* connections between notes of the corpus, as execute builds them
CacheConnections ==
    {Discovered(Connection(classifyNote(pair[1])[1], classifyNote(pair[2])[1], similarity), at) :
        pair \in {<<IdA, IdB>>, <<IdB, IdA>>, <<IdA, IdNote>>},
        similarity \in {0, One \div 3, One},
        at \in {1700123}}

\* caches of at most two of them
SerendipityCaches ==
    {[connections |-> connections, timestamp |-> 1700456] :
        connections \in {<<>>} \cup {<<c>> : c \in CacheConnections}
                          \cup {<<c, d>> : c \in CacheConnections, d \in CacheConnections}}

\* plain objects as JSON.parse can give them to hydrateConnection: a value object
\* may be missing, and its value may be any number
PlainValues(unit) == {<<>>} \cup {<<value * unit>> : value \in RawValues}

PlainConnections ==
    {[sourceNote |-> "source", targetNote |-> "target",
      serendipityScore |-> score, domainDistance |-> distance,
      similarity |-> One \div 2, connectionType |-> "analogical",
      discoveredAt |-> [iso |-> 1700123]] :
        score \in PlainValues(ScoreOne \div One), distance \in PlainValues(1)}

ApplyHydrate(plain) ==
    /\ NoCall
    /\ fnCall' = [fn |-> "hydrateConnection", args |-> <<plain>>]
    /\ fnResult' = hydrateConnection(plain)
    /\ UNCHANGED <<envVars, svcVars, exVars, ftVars, deepOptions, dpVars, pluginVars>>

\* setSerendipityCache writes the cache as JSON, getSerendipityCache reads and
\* hydrates it
ApplyRoundTrip(cache) ==
    /\ NoCall
    /\ fnCall' = [fn |-> "roundTrip", args |-> <<cache>>]
    /\ fnResult' = hydrateSerendipityCache(SerendipityCacheJson(cache))
    /\ UNCHANGED <<envVars, svcVars, exVars, ftVars, deepOptions, dpVars, pluginVars>>

\* the tags of a note, without their '#'
NoteTagLists ==
    {<<>>,
     << <<"x">> >>,
     << <<"d","/","p","h">> >>,
     << <<"x">>, <<"d","/","b","i">>, <<"d","/","p","h">> >>,
     << <<"t","/","a","r">>, <<"d","/","p","h">> >>,
     << <<"d","/">>, <<"t","/","a","r">> >>,
     << <<"d","/">> >>}

\* settings.domainTagPrefixes
PrefixLists == {<<>>, << <<"d","/">> >>, << <<"d","/">>, <<"t","/">> >>}

\* paths of notes
NotePaths ==
    {<<"a",".","m","d">>,
     <<"p","h","/","a",".","m","d">>,
     <<"p","h","/","s","u","b","/","a",".","m","d">>,
     <<"0","3","_","R","/","p","h","/","a",".","m","d">>,
     <<"0","3","_","R","/","a",".","m","d">>,
     <<"3","R","/","p","h","/","a",".","m","d">>,
     <<"_","3","/","p","h","/","a",".","m","d">>,
     <<"7","_","/","/","a",".","m","d">>}

\* classifyNote, lines 87-111: the primary domain of a note of this path and
\* these tags, for a service of these settings
ApplyPrimaryDomain(method, prefixes, path, tags) ==
    /\ NoCall
    /\ fnCall' = [fn |-> "primaryDomain", args |-> <<method, prefixes, path, tags>>]
    /\ fnResult' = PrimaryDomainWith([method |-> method, domainTagPrefixes |-> prefixes],
                                     generateNoteId(path), path, tags)
    /\ UNCHANGED <<envVars, svcVars, exVars, ftVars, deepOptions, dpVars, pluginVars>>

\* the NoteDomain of the i-th note of a domain
DomainNote(domain, i) ==
    [noteId |-> <<CharCode(domain[1]), i>>,
     path |-> domain \o <<"/", "n">>,
     title |-> <<"n">>,
     primaryDomain |-> domain,
     secondaryDomains |-> <<>>,
     tags |-> <<>>]

\* the entry of domainGroups for a domain of count notes
DomainGroup(domain, count) ==
    [domain |-> domain, notes |-> [i \in 1..count |-> DomainNote(domain, i)]]

\* domainGroups as groupNotesByDomain leaves it: groups of up to one note more
\* than the sample takes
DomainGroupLists ==
    {<< DomainGroup(<<"p","h">>, n1), DomainGroup(<<"b","i">>, n2) >> :
        n1 \in {1, GroupSampleSize + 1}, n2 \in {GroupSampleSize, GroupSampleSize + 1}}
    \cup {<< DomainGroup(<<"p","h">>, 2), DomainGroup(<<"b","i">>, GroupSampleSize + 1),
             DomainGroup(<<"a","r">>, 1) >>,
          << DomainGroup(<<"p","h">>, 2) >>}

\* sampleCrossDomainPairs, lines 506-539: the candidate pairs before the shuffle
ApplyCrossDomainPairs(groups) ==
    /\ NoCall
    /\ \E pairs \in (IF Len(groups) < 2 THEN {<<>>} ELSE PairListsFrom(groups, 1, 2)) :
          /\ fnCall' = [fn |-> "crossDomainPairs", args |-> <<groups>>]
          /\ fnResult' = pairs
    /\ UNCHANGED <<envVars, svcVars, exVars, ftVars, deepOptions, dpVars, pluginVars>>

InitFn ==
    /\ vault = VaultFiles
    /\ indexing = IndexBuilt(VaultFiles, buildNoteIdIndex(VaultFiles))
    /\ links = {}
    /\ embeddingFiles = CHOOSE store \in EmbeddingStores : TRUE
    /\ noteIdToPath = buildNoteIdIndex(VaultFiles)
    /\ classification = [method |-> "tag", domainTagPrefixes |-> DomainTagPrefixes]
    /\ \E folders \in {CHOOSE lists \in FolderLists : TRUE} :
          /\ options = DefaultOptions(folders)
          /\ deepOptions = DefaultDeepOptions(folders)
          /\ LoadedWith(ConfiguredAi,
                        [ShippedDiscovery EXCEPT
                             !.excludeFolders = folders.excludeFolders,
                             !.includeFolders = folders.includeFolders],
                        [ShippedAdvanced EXCEPT !.domainTagPrefixes = DomainTagPrefixes])
    /\ NothingRan
    /\ NoCall

NextFn ==
    \/ \E similarity \in RawValues, domainDistance \in RawValues,
          linked \in BOOLEAN, genericTermsCount \in 0..MaxGenericTerms :
          ApplyCalculate(similarity, domainDistance, linked, genericTermsCount)
    \/ \E tags1 \in TagLists, tags2 \in TagLists : ApplyFromTagJaccard(tags1, tags2)
    \/ \E path1 \in FolderPaths, path2 \in FolderPaths : ApplyFromFolderPath(path1, path2)
    \/ \E value \in RawValues : ApplyDistanceFromValue(value)
    \/ \E value \in RawValues : ApplyScoreFromValue(value * (ScoreOne \div One))
    \/ \E possible \in PossibleLines, score \in ScoreLines, analogy \in AnalogyLines,
          order \in {1, 2} :
          ApplyParse(IF order = 1 THEN JoinLines(<<possible, score, analogy>>)
                     ELSE JoinLines(<<analogy, score, possible>>))
    \/ \E plain \in PlainConnections : ApplyHydrate(plain)
    \/ \E cache \in SerendipityCaches : ApplyRoundTrip(cache)
    \/ \E method \in ClassificationMethods, prefixes \in PrefixLists, path \in NotePaths,
          tags \in NoteTagLists :
          ApplyPrimaryDomain(method, prefixes, path, tags)
    \/ \E groups \in DomainGroupLists : ApplyCrossDomainPairs(groups)

SpecFn == InitFn /\ [][NextFn]_vars

(***************************************************************************)
(* The specification of the plugin: its settings and its persisted data    *)
(***************************************************************************)
\* values of the slider, in 1/Scale
SimilarityChoices == {(3 * One) \div 10}

ApiKeyChoices == {"key-2"}

\* the methods chosen in the dropdown
MethodChoices == {"tag", "folder"}

\* the caches the modal stores
StandardCaches ==
    {[connections |-> <<Discovered(Connection(classifyNote(IdA)[1], classifyNote(IdB)[1],
                                              similarity), 1700123)>>,
      timestamp |-> 1700456] : similarity \in {One \div 3, One}}

DeepCaches ==
    {[connections |-> <<[sourceNote |-> IdA, targetNote |-> IdB,
                         creativityScore |-> quality, analogy |-> <<"a", "b">>,
                         domainDistance |-> One, discoveredAt |-> 1700123]>>,
      timestamp |-> 1700456] : quality \in {(8 * One) \div 10}}

InitPlugin ==
    /\ vault = VaultFiles
    /\ indexing = IndexBuilt(VaultFiles, buildNoteIdIndex(VaultFiles))
    /\ links = {}
    /\ embeddingFiles = CHOOSE store \in EmbeddingStores : TRUE
    /\ data \in {<<>>,
                 << [EmptyData EXCEPT !.ai = <<ConfiguredAi>>,
                                      !.discovery = <<ShippedDiscovery>>,
                                      !.advanced = <<ShippedAdvanced>>] >>}
    /\ Onloaded(loadSettings(ShippedHeap, data).heap, loadSettings(ShippedHeap, data).settings)
    /\ stored = [standard |-> <<>>, deep |-> <<>>]
    /\ cacheOps = NoCacheOps
    /\ view = ViewClosed
    /\ NothingRan
    /\ NoCall

NextPlugin ==
    \/ \E value \in SimilarityChoices : ChangeMinSimilarity(value)
    \/ \E key \in ApiKeyChoices : ChangeApiKey(key)
    \/ \E method \in MethodChoices : ChangeClassificationMethod(method)
    \/ ResetSettings
    \/ \E cache \in StandardCaches : setSerendipityCache(cache)
    \/ clearSerendipityCache
    \/ \E cache \in DeepCaches : setDeepSerendipityCache(cache)
    \/ clearDeepSerendipityCache
    \/ Restart

SpecPlugin == InitPlugin /\ [][NextPlugin]_vars

(***************************************************************************)
(* The specification of the cache operations with their two awaits: a      *)
(* standard flow and a deep flow of the modal each run one operation at a  *)
(* time, and the operations of the two flows interleave at loadData and    *)
(* saveData                                                                *)
(***************************************************************************)
NextCache ==
    \/ \E cache \in StandardCaches :
           CacheLoad("standard", "setSerendipityCache", <<cache>>)
    \/ CacheLoad("standard", "clearSerendipityCache", <<>>)
    \/ \E cache \in DeepCaches :
           CacheLoad("deep", "setDeepSerendipityCache", <<cache>>)
    \/ CacheLoad("deep", "clearDeepSerendipityCache", <<>>)
    \/ \E flow \in Flows : CacheSave(flow)

SpecCache == InitPlugin /\ [][NextCache]_vars

(***************************************************************************)
(* The specification of the settings tab beside the sidebar view           *)
(***************************************************************************)
\* the thresholds and result counts the settings tab is given
ViewSimilarityChoices == {(3 * One) \div 10, One \div 2}

NextView ==
    \/ OpenView
    \/ CloseView
    \/ \E value \in ViewSimilarityChoices : ChangeMinSimilarity(value)
    \/ \E key \in ApiKeyChoices : ChangeApiKey(key)
    \/ \E method \in MethodChoices : ChangeClassificationMethod(method)
    \/ ResetSettings
    \/ Restart

SpecView == InitPlugin /\ [][NextView]_vars

(***************************************************************************)
(* The specification of findTopSerendipitousConnections with its sampling  *)
(* of the sources, which is also applied to corpora of more identifiers    *)
(* than the vault of the model has                                         *)
(***************************************************************************)
\* the numbers of embedded notes the sampling is applied to
CorpusSizes == {SampleSize - 1, SampleSize, SampleSize + 1, SampleSize + 3}

\* Array.from(allEmbeddings.keys()) of a corpus of count embedded notes
NoteIdsOf(count) == [i \in 1..count |-> <<0, i>>]

\* lines 196-202 for a corpus of count embedded notes
ApplySampledNoteIds(count) ==
    /\ NoCall
    /\ NothingRan
    /\ \E sample \in SampledNoteIds(NoteIdsOf(count)) :
          /\ fnCall' = [fn |-> "sampledNoteIds", args |-> <<NoteIdsOf(count)>>]
          /\ fnResult' = <<sample>>
    /\ UNCHANGED <<envVars, svcVars, exVars, ftVars, deepOptions, dpVars, pluginVars>>

InitFindTop ==
    /\ Init
    /\ classification.method = "tag"
    /\ options.minSimilarity = 0
    /\ options.minSerendipityScore = 0
    /\ options.excludeFolders = <<>>

NextFindTop ==
    \/ \E count \in CorpusSizes : ApplySampledNoteIds(count)
    \/ \E n \in Limits : FindTop(n)
    \/ FindTopCall
    \/ ExecuteScan
    \/ ExecuteReturn
    \/ FindTopCollect
    \/ FindTopThrow
    \/ FindTopReturn

SpecFindTop == InitFindTop /\ [][NextFindTop]_vars

(***************************************************************************)
(* The specification of execute while the vault changes and the handlers   *)
(* of its events rebuild the index                                         *)
(***************************************************************************)
\* the files of the vault after a note was deleted, and after one was created
VaultVersions == {VaultFiles, VaultFiles \ {PathB}, VaultFiles \cup {PathGone}}

\* a rebuild that leaves the event loop between its steps
RunToCompletion_Yielding == TRUE

\* buildNoteIdIndex is a synchronous function: while it runs no other code of
\* the plugin does
RunToCompletion == ~indexing.running

\* main.ts 140-157 and part_005 34-36: the vault has created, deleted or
\* renamed a file, the handler calls refreshIndex, which clears the index and
\* gets the files of the vault
RefreshIndexBegin(files) ==
    /\ ~indexing.running
    /\ files # vault
    /\ vault' = files
    /\ noteIdToPath' = <<>>
    /\ indexing' = [running |-> files # {},
                    todo |-> getMarkdownFiles(files),
                    files |-> files,
                    before |-> noteIdToPath]
    /\ UNCHANGED <<links, embeddingFiles, classification, options>>
    /\ UNCHANGED <<exVars, ftVars, deepOptions, dpVars, pluginVars, fnVars>>

\* part_005 37-40: one round of the loop over the files
RefreshIndexSet ==
    /\ indexing.running
    /\ noteIdToPath' = IndexSet(noteIdToPath, Head(indexing.todo))
    /\ indexing' = [indexing EXCEPT !.todo = Tail(@), !.running = Tail(indexing.todo) # <<>>]
    /\ UNCHANGED <<vault, links, embeddingFiles, classification, options>>
    /\ UNCHANGED <<exVars, ftVars, deepOptions, dpVars, pluginVars, fnVars>>

InitRefresh ==
    /\ Init
    /\ links = {}
    /\ embeddingFiles = (CHOOSE store \in EmbeddingStores : IdGone \in DOMAIN store)
    /\ classification.method = "tag"
    /\ options.minSimilarity = 0
    /\ options.minSerendipityScore = 0
    /\ options.excludeFolders = <<>>
    /\ options.includeFolders = <<>>
    /\ options.maxResults = 10

NextRefresh ==
    \/ \E files \in VaultVersions : RefreshIndexBegin(files)
    \/ RefreshIndexSet
    \/ RunToCompletion /\ \E f \in vault : Execute(generateNoteId(f))
    \/ RunToCompletion /\ ExecuteScan
    \/ RunToCompletion /\ ExecuteReturn

SpecRefresh == InitRefresh /\ [][NextRefresh]_vars

(***************************************************************************)
(* Properties of the standard discovery engine                             *)
(***************************************************************************)
Returned == exPc = "done" /\ exStatus = "returned"

FindTopReturned == ftPc = "done" /\ ftStatus = "returned"

\* the entries execute scanned that are not the source
ScannedOthers == {i \in 1..Len(allEmbeddings) : allEmbeddings[i].noteId # sourceNoteId}

\* the entry reaches the comparison of the vectors (line 122): no earlier test
\* of the loop skips it
ReachesSimilarity(source, entry) ==
    /\ entry.noteId # source.noteId
    /\ ~SkipExcluded(getPathByNoteId(entry.noteId))
    /\ ~SkipAlreadyLinked(getPathByNoteId(source.noteId), getPathByNoteId(entry.noteId))
    /\ classifyNote(entry.noteId) # <<>>
    /\ ~SkipSameDomain(source, classifyNote(entry.noteId)[1])

\* the path passes the folder settings: under an include folder when there are
\* any, and under no exclude folder
PassesFolders(path) == isIncludedPath(path) /\ ~isExcludedPath(path)

\* C1: execute never returns a connection whose target is the source note, nor,
\* under the tag or folder method, one whose two notes have the same primary
\* domain.
C1_NeverSelfNorSameDomain ==
    Returned =>
        \A i \in 1..Len(exResult) :
            /\ exResult[i].targetNote.noteId # sourceNoteId
            /\ exResult[i].targetNote.noteId # exResult[i].sourceNote.noteId
            /\ classification.method \in {"tag", "folder"} =>
                  exResult[i].sourceNote.primaryDomain
                      # exResult[i].targetNote.primaryDomain

\* execute returned connections after it scanned itself and, under the tag or
\* folder method, a note of the source's own domain that passes every other test
C1_Witness ==
    /\ Returned
    /\ exResult # <<>>
    /\ classification.method \in {"tag", "folder"}
    /\ \E i \in 1..Len(allEmbeddings) : allEmbeddings[i].noteId = sourceNoteId
    /\ \E i \in ScannedOthers :
          LET other == classifyNote(allEmbeddings[i].noteId)
              similarity == cosineSimilarity(sourceEmbedding, allEmbeddings[i].embedding)
          IN  /\ other # <<>>
              /\ other[1].primaryDomain = sourceNoteDomain[1].primaryDomain
              /\ similarity # <<>>
              /\ ~SkipLowSimilarity(similarity[1])

\* C2 (as claimed): when execute compares the source's vector with a target's
\* vector of another length, the call ends with the error and returns no list.
C2_MismatchAborts ==
    (/\ exPc = "done"
     /\ sourceNoteDomain # <<>>
     /\ \E i \in 1..Len(allEmbeddings) :
           /\ ReachesSimilarity(sourceNoteDomain[1], allEmbeddings[i])
           /\ Len(allEmbeddings[i].embedding) # Len(sourceEmbedding))
    => exStatus = "threw"

\* C3 (as claimed): findTop does not fail when a sampled source has an
\* embedding and cannot be classified; it returns a list.
C3_UnclassifiableSourceSkipped ==
    (/\ ftPc = "done"
     /\ \E i \in 1..Len(sampledNoteIds) :
           /\ getEmbedding(sampledNoteIds[i]) # <<>>
           /\ classifyNote(sampledNoteIds[i]) = <<>>)
    => ftStatus = "returned"

\* C4 (as claimed): no connection findTop returns has a note, as source or as
\* target, under an exclude folder or outside every include folder.
C4_NoFilteredNoteReturned ==
    FindTopReturned =>
        \A i \in 1..Len(ftResult) :
            /\ PassesFolders(ftResult[i].sourceNote.path)
            /\ PassesFolders(ftResult[i].targetNote.path)

\* C5: execute never returns a connection between two notes for which the link
\* checker reports a link, in either direction, between their paths.
C5_NeverLinked ==
    Returned =>
        \A i \in 1..Len(exResult) :
            /\ <<exResult[i].sourceNote.path, exResult[i].targetNote.path>> \notin links
            /\ <<exResult[i].targetNote.path, exResult[i].sourceNote.path>> \notin links

\* execute returned connections after it scanned a note that links to the
\* source (the link runs from the target to the source)
C5_Witness ==
    /\ Returned
    /\ exResult # <<>>
    /\ \E i \in ScannedOthers :
          <<getPathByNoteId(allEmbeddings[i].noteId), sourceNoteDomain[1].path>> \in links

\* C6: every connection execute returns has a similarity of at least
\* minSimilarity and a score of at least minSerendipityScore.
C6_AboveThresholds ==
    Returned =>
        \A i \in 1..Len(exResult) :
            /\ exResult[i].similarity >= options.minSimilarity
            /\ exResult[i].serendipityScore * One >= options.minSerendipityScore * ScoreOne

\* execute returned connections under two positive thresholds after it dropped
\* one target for its similarity and another for its score
C6_Witness ==
    /\ Returned
    /\ exResult # <<>>
    /\ options.minSimilarity > 0
    /\ options.minSerendipityScore > 0
    /\ \E i, j \in ScannedOthers :
          LET source == sourceNoteDomain[1]
              simI == cosineSimilarity(sourceEmbedding, allEmbeddings[i].embedding)
              simJ == cosineSimilarity(sourceEmbedding, allEmbeddings[j].embedding)
          IN  /\ ReachesSimilarity(source, allEmbeddings[i])
              /\ simI # <<>>
              /\ simI[1] < options.minSimilarity
              /\ ReachesSimilarity(source, allEmbeddings[j])
              /\ simJ # <<>>
              /\ simJ[1] >= options.minSimilarity
              /\ Connection(source, classifyNote(allEmbeddings[j].noteId)[1],
                            simJ[1]).serendipityScore * One
                     < options.minSerendipityScore * ScoreOne

\* C7: the list execute returns is ordered by score, highest first, has at most
\* maxResults entries, and holds the highest scored of the candidates that
\* passed the filters.
C7_RankedAndTruncated ==
    Returned =>
        /\ Len(exResult) = Min(Len(candidates), options.maxResults)
        /\ \A i \in 1..(Len(exResult) - 1) :
              exResult[i].serendipityScore >= exResult[i + 1].serendipityScore
        /\ \A i \in 1..Len(exResult) : exResult[i] \in Range(candidates)
        /\ \A i, j \in 1..Len(exResult) : i # j => exResult[i] # exResult[j]
        /\ \A k \in 1..Len(candidates) :
              \/ candidates[k] \in Range(exResult)
              \/ \A i \in 1..Len(exResult) :
                    exResult[i].serendipityScore >= candidates[k].serendipityScore

\* execute found more candidates than maxResults, out of score order, and
\* dropped one of a lower score than it kept
C7_Witness ==
    /\ Returned
    /\ Len(candidates) > options.maxResults
    /\ Len(exResult) >= 2
    /\ exResult[1].serendipityScore > exResult[Len(exResult)].serendipityScore
    /\ \E k \in 1..(Len(candidates) - 1) :
          candidates[k].serendipityScore < candidates[k + 1].serendipityScore
    /\ \E k \in 1..Len(candidates) :
          /\ candidates[k] \notin Range(exResult)
          /\ candidates[k].serendipityScore < exResult[Len(exResult)].serendipityScore

\* the unordered pair of the notes of a connection
NotesOf(conn) == {conn.sourceNote.noteId, conn.targetNote.noteId}

\* C8: findTop never keeps or returns two connections of the same unordered
\* pair of notes.
C8_NoPairTwice ==
    /\ \A i, j \in 1..Len(allConnections) :
          i # j => NotesOf(allConnections[i]) # NotesOf(allConnections[j])
    /\ \A i, j \in 1..Len(ftResult) :
          i # j => NotesOf(ftResult[i]) # NotesOf(ftResult[j])

\* findTop returned connections of which one, A-B, is also found in the other
\* direction by the execute of B, and was discarded there
C8_Witness ==
    /\ FindTopReturned
    /\ Len(ftResult) >= 2
    /\ options.maxResults > Len(EmbeddingIndexKeys)
    /\ \E i \in 1..Len(ftResult) :
          LET conn == ftResult[i]
          IN  ScanTarget(conn.targetNote, getEmbedding(conn.targetNote.noteId)[1].embedding,
                         getEmbedding(conn.sourceNote.noteId)[1]) # <<>>

(***************************************************************************)
(* The deep discovery engine                                               *)
(***************************************************************************)
DeepReturned == dpPc = "done" /\ dpStatus = "returned"

\* the primary domains of the embedded notes that have a path in the index,
\* pass the folder filters and can be classified
DeepDomains ==
    {GroupedNote(getAllEmbeddings[i])[1].primaryDomain :
        i \in {k \in 1..Len(getAllEmbeddings) : GroupedNote(getAllEmbeddings[k]) # <<>>}}

\* the identifiers of the pairs kept for evaluation, in their order
RetainedPairs ==
    [i \in 1..Len(candidatePairs) |->
        <<candidatePairs[i].source.noteId, candidatePairs[i].target.noteId>>]

\* C9: when the embedded notes that pass the folder filters and can be
\* classified have fewer than two different primary domains, a run of the deep
\* engine returns the empty list and no request ever goes to the evaluator.
C9_OneDomainNoEvaluation ==
    (dpPc # "idle" /\ Cardinality(DeepDomains) < 2)
        => /\ DeepReturned
           /\ dpResult = <<>>
           /\ requests = <<>>

\* a run that returned with notes of exactly one domain left after the filters
C9_Witness ==
    /\ DeepReturned
    /\ Cardinality(DeepDomains) = 1
    /\ \E i, j \in 1..Len(getAllEmbeddings) :
          /\ i # j
          /\ GroupedNote(getAllEmbeddings[i]) # <<>>
          /\ GroupedNote(getAllEmbeddings[j]) # <<>>

\* C10: in a run of the deep engine the requests sent to the evaluator are the
\* retained pairs, each one once and in order, whatever the evaluator answered
\* (a failure and a throw included), and there are never more of them than
\* maxPairsToEvaluate.
C10_OncePerPairWithinBudget ==
    /\ Len(requests) <= deepOptions.maxPairsToEvaluate
    /\ dpPc = "evaluate" => requests = SubSeq(RetainedPairs, 1, dpNext - 1)
    /\ dpPc = "await" => requests = SubSeq(RetainedPairs, 1, dpNext)
    /\ DeepReturned => requests = RetainedPairs

\* a run that returned after the budget cut pairs off and after an evaluation
\* that failed or threw
C10_Witness ==
    /\ DeepReturned
    /\ Len(requests) = deepOptions.maxPairsToEvaluate
    /\ Len(requests) >= 2
    /\ Len(results) < Len(requests)
    /\ \E pairs \in PairListsFrom(groupNotesByDomain(getAllEmbeddings), 1, 2) :
          Len(pairs) > deepOptions.maxPairsToEvaluate

\* the evaluation failed: the evaluator threw, or answered without success or
\* with no content
Failed(answer) ==
    answer.kind = "threw" \/ ~answer.success \/ answer.content = <<>>

\* the identifiers of the two notes of a deep connection
DeepPairOf(conn) == <<conn.sourceNote.noteId, conn.targetNote.noteId>>

\* C11: in a run of the deep engine a pair whose evaluation failed is in no
\* list of results, the run never ends with an error, and it returns only
\* after every retained pair got its evaluation, those after a failure included.
C11_FailedPairDropped ==
    /\ dpStatus # "threw"
    /\ \A i \in 1..Len(answers) :
          Failed(answers[i]) =>
              /\ \A k \in 1..Len(results) : DeepPairOf(results[k]) # requests[i]
              /\ \A k \in 1..Len(dpResult) : DeepPairOf(dpResult[k]) # requests[i]
    /\ DeepReturned => Len(answers) = Len(candidatePairs)

\* a run that returned a connection of a pair evaluated after a pair whose
\* evaluation threw
C11_Witness ==
    /\ DeepReturned
    /\ Len(answers) >= 2
    /\ answers[1].kind = "threw"
    /\ ~Failed(answers[2])
    /\ \E k \in 1..Len(dpResult) : DeepPairOf(dpResult[k]) = requests[2]

\* the evaluator's answer to the pair of the connection is affirmative, with the
\* quality the connection carries
JudgedAffirmative(conn) ==
    \E i \in 1..Len(answers) :
        /\ requests[i] = DeepPairOf(conn)
        /\ ~Failed(answers[i])
        /\ parseEvaluationResponse(answers[i].content).connectionPossible
        /\ parseEvaluationResponse(answers[i].content).qualityScore = conn.creativityScore

\* C12: every connection the deep engine returns got an affirmative answer, has
\* a quality above 0 and of at least minQualityScore; the list is in descending
\* order of quality and no longer than maxResults.
C12_DeepResultQuality ==
    DeepReturned =>
        /\ \A k \in 1..Len(dpResult) :
              /\ JudgedAffirmative(dpResult[k])
              /\ dpResult[k].creativityScore > 0
              /\ dpResult[k].creativityScore >= deepOptions.minQualityScore
        /\ \A k \in 1..(Len(dpResult) - 1) :
              dpResult[k].creativityScore >= dpResult[k + 1].creativityScore
        /\ Len(dpResult) <= deepOptions.maxResults

\* a run that kept two connections, the lower quality first, both of at least
\* minQualityScore, and returned the higher one alone
C12_Witness ==
    /\ DeepReturned
    /\ Len(results) = 2
    /\ results[1].creativityScore < results[2].creativityScore
    /\ results[1].creativityScore >= deepOptions.minQualityScore
    /\ deepOptions.maxResults = 1
    /\ dpResult = <<results[2]>>

(***************************************************************************)
(* Properties of the value objects and of the response parser              *)
(***************************************************************************)
Applied(fn) == fnCall.fn = fn

\* the value is a number of [0, 1], in 1/unit
WithinUnit(value, unit) == value \in 0..unit

\* C13 (as claimed): every score the functions produce lies in [0, 1]: the
\* value of a SerendipityScore or a DomainDistance built by calculate,
\* fromTagJaccard, fromFolderPath, fromValue or hydrateConnection, and the
\* quality score parseEvaluationResponse reads.
C13_ScoresWithinUnit ==
    /\ (Applied("calculate") \/ Applied("SerendipityScore.fromValue"))
          => WithinUnit(fnResult, ScoreOne)
    /\ (Applied("fromTagJaccard") \/ Applied("fromFolderPath")
            \/ Applied("DomainDistance.fromValue"))
          => WithinUnit(fnResult, One)
    /\ Applied("hydrateConnection")
          => /\ WithinUnit(fnResult.serendipityScore, ScoreOne)
             /\ WithinUnit(fnResult.domainDistance, One)
    /\ Applied("parseEvaluationResponse") => WithinUnit(fnResult.qualityScore, One)

\* clamp01, in 1/ScoreOne
Clamp01(value) == IF value < 0 THEN 0 ELSE IF value > ScoreOne THEN ScoreOne ELSE value

\* the score of the claim, in 1/ScoreOne, for a similarity and a distance in
\* 1/Scale: (similarity*0.4 + domainDistance*0.6) * noveltyPenalty * specificityPenalty
ClaimedScore(similarity, domainDistance, linked, genericTermsCount) ==
    LET base == (4 * similarity + 6 * domainDistance) * (ScoreOne \div (10 * One))
        afterNovelty == IF linked THEN base \div 2 ELSE base
        specificity100 == IF 100 - 15 * genericTermsCount > 30
                          THEN 100 - 15 * genericTermsCount ELSE 30
    IN  Clamp01((afterNovelty * specificity100) \div 100)

\* C14: calculate returns clamp01((similarity*0.4 + domainDistance*0.6) *
\* noveltyPenalty * specificityPenalty), with noveltyPenalty 0.5 for a linked pair
\* and 1 otherwise, and specificityPenalty max(0.3, 1 - genericTermsCount*0.15);
\* without penalties it is 0.4*similarity + 0.6*domainDistance.
C14_ScoreFormula ==
    Applied("calculate") =>
        /\ fnResult = ClaimedScore(fnCall.args[1], fnCall.args[2], fnCall.args[3],
                                   fnCall.args[4])
        /\ (~fnCall.args[3] /\ fnCall.args[4] = 0
              /\ fnCall.args[1] \in 0..One /\ fnCall.args[2] \in 0..One)
              => fnResult * 10 = (4 * fnCall.args[1] + 6 * fnCall.args[2]) * (ScoreOne \div One)

\* calculate was applied to a linked pair with so many generic terms that the
\* penalty is at its floor, and gave a score inside (0, 1)
C14_Witness ==
    /\ Applied("calculate")
    /\ fnCall.args[3]
    /\ 100 - 15 * fnCall.args[4] < 30
    /\ fnResult > 0
    /\ fnResult < ScoreOne

\* C15: a cache written as JSON and hydrated back has, connection by
\* connection, the SerendipityScore value and the DomainDistance value it had
\* before, each again a value object of [0, 1] and not the plain object of the
\* JSON.
C15_CacheRoundTrip ==
    Applied("roundTrip") =>
        LET before == fnCall.args[1].connections
            after == fnResult.connections
        IN  /\ Len(after) = Len(before)
            /\ \A i \in 1..Len(before) :
                  /\ after[i].serendipityScore = before[i].serendipityScore
                  /\ after[i].domainDistance = before[i].domainDistance
                  /\ WithinUnit(after[i].serendipityScore, ScoreOne)
                  /\ WithinUnit(after[i].domainDistance, One)

\* a cache of two connections of different scores, neither 0 nor 1, went
\* through the JSON and back
C15_Witness ==
    /\ Applied("roundTrip")
    /\ Len(fnResult.connections) = 2
    /\ fnCall.args[1].connections[1].serendipityScore
          # fnCall.args[1].connections[2].serendipityScore
    /\ \A i \in 1..2 :
          /\ fnCall.args[1].connections[i].serendipityScore \in 1..(ScoreOne - 1)
          /\ fnCall.args[1].connections[i].domainDistance \in 1..One

\* the lines of the content that begin, once trimmed, with the marker
LinesBeginning(content, marker) ==
    LET lines == Split(content, "\n")
    IN  {Trim(lines[i]) : i \in {k \in 1..Len(lines) : StartsWith(Trim(lines[k]), marker)}}

\* C16 (as claimed): parseEvaluationResponse reads its three fields line by
\* line: the flag is true exactly when the CONNECTION_POSSIBLE: line holds YES,
\* the score is the first numeric substring of the QUALITY_SCORE: line clamped
\* into [0, 1], the text is the trimmed remainder of the ANALOGY: line, and
\* without any ANALOGY: marker the text is empty.
C16_ParserLineOriented ==
    Applied("parseEvaluationResponse") =>
        LET content == fnCall.args[1]
        IN  /\ fnResult.connectionPossible
                  = (\E line \in LinesBeginning(content, MarkerPossible) : Includes(line, Yes))
            /\ WithinUnit(fnResult.qualityScore, One)
            /\ \A line \in LinesBeginning(content, MarkerScore) :
                  MatchNumeric(line) # <<>>
                      => fnResult.qualityScore
                             = Min(One, Max(0, parseFloat(MatchNumeric(line)[1])))
            /\ \A line \in LinesBeginning(content, MarkerAnalogy) :
                  fnResult.analogy = Trim(Slice(line, Len(MarkerAnalogy)))
            /\ IndexOf(content, MarkerAnalogy) = 0 - 1 => fnResult.analogy = <<>>

\* C17: a result stored with setSerendipityCache or setDeepSerendipityCache is
\* returned by getSerendipityCache or getDeepSerendipityCache until the
\* matching clear, whatever other operation of the plugin ran in between
\* (stored is the last entry stored and not yet cleared)
C17_CacheDurable ==
    /\ stored.standard # <<>> => getSerendipityCache(data) = stored.standard
    /\ stored.deep # <<>> => getDeepSerendipityCache(data) = stored.deep

\* the settings the plugin holds, the section objects read through their
\* references
SettingsOf(h, s) ==
    [ai |-> [provider |-> h[s.ai].provider,
             apiKeys |-> h[h[s.ai].apiKeys],
             model |-> h[s.ai].model],
     discovery |-> h[s.discovery],
     advanced |-> h[s.advanced]]

\* C18: when resetSettings has completed, every setting has its shipped
\* default value, whatever changes and resets came before
C18_ResetRestoresDefaults ==
    [][ResetSettings => SettingsOf(heap', settings') = SettingsOf(ShippedHeap, DEFAULT_SETTINGS)]_vars

\* the targets of the scan whose classification fails inside the try block
FailedTargets ==
    {i \in 1..Len(allEmbeddings) :
        /\ allEmbeddings[i].noteId # sourceNoteId
        /\ ~SkipExcluded(getPathByNoteId(allEmbeddings[i].noteId))
        /\ ~SkipAlreadyLinked(getPathByNoteId(sourceNoteId),
                              getPathByNoteId(allEmbeddings[i].noteId))
        /\ classifyNote(allEmbeddings[i].noteId) = <<>>}

\* C19: in execute a target whose classification fails is skipped and the
\* scan goes on: once execute is past its loop it has returned normally,
\* every entry was examined, no candidate has a failed target, and each other
\* entry gave the candidates what its round of the loop gives
C19_FailedTargetSkipped ==
    (exPc = "done" /\ sourceNoteDomain # <<>>) =>
        /\ exStatus = "returned"
        /\ exNext = Len(allEmbeddings) + 1
        /\ \A i \in FailedTargets : \A k \in 1..Len(candidates) :
               candidates[k].targetNote.noteId # allEmbeddings[i].noteId
        /\ \A i \in (1..Len(allEmbeddings)) \ FailedTargets :
               LET found == ScanTarget(sourceNoteDomain[1], sourceEmbedding,
                                       allEmbeddings[i])
               IN  \A k \in 1..Len(found) :
                       \E j \in 1..Len(candidates) : candidates[j] = found[k]

\* execute returned a connection after a scan that met a failing target
\* before its last entry
C19_Witness ==
    /\ exPc = "done"
    /\ exStatus = "returned"
    /\ exResult # <<>>
    /\ \E i \in FailedTargets : \E j \in (i + 1)..Len(allEmbeddings) :
           ScanTarget(sourceNoteDomain[1], sourceEmbedding, allEmbeddings[j]) # <<>>

\* Array.from(allEmbeddings.keys())
EmbeddedNoteIds == [i \in 1..Len(getAllEmbeddings) |-> getAllEmbeddings[i].noteId]

\* the sample holds different identifiers of noteIds: all of them, in their
\* order, when they are at most SampleSize, else SampleSize of them
SampledFrom(sample, noteIds) ==
    /\ \A i, j \in 1..Len(sample) : i # j => sample[i] # sample[j]
    /\ \A i \in 1..Len(sample) : sample[i] \in Range(noteIds)
    /\ Len(noteIds) <= SampleSize => sample = noteIds
    /\ Len(noteIds) > SampleSize => Len(sample) = SampleSize

\* what execute finds for the source in the entry, were the source classified
FoundFor(noteId, entry) ==
    IF classifyNote(noteId) = <<>> \/ getEmbedding(noteId) = <<>> THEN <<>>
    ELSE ScanTarget(classifyNote(noteId)[1], getEmbedding(noteId)[1].embedding, entry)

\* C20: findTopSerendipitousConnections runs execute over different source
\* identifiers: all the embedded ones when they are at most 100, exactly 100
\* of them when they are more.  What it returns is the merged connections of
\* these sources (each found by execute for its source, and, where execute
\* does not cut its list, every pair execute finds), ordered by score, highest
\* first, and cut to limit.
C20_SourcesSampledResultRanked ==
    /\ Applied("sampledNoteIds") => SampledFrom(fnResult[1], fnCall.args[1])
    /\ ftPc # "idle" => SampledFrom(sampledNoteIds, EmbeddedNoteIds)
    /\ FindTopReturned =>
          /\ \A k \in 1..Len(allConnections) :
                /\ allConnections[k].sourceNote.noteId \in Range(sampledNoteIds)
                /\ \E i \in 1..Len(getAllEmbeddings) :
                      FoundFor(allConnections[k].sourceNote.noteId, getAllEmbeddings[i])
                          = <<allConnections[k]>>
          /\ options.maxResults >= Len(getAllEmbeddings) =>
                \A s \in 1..Len(sampledNoteIds), i \in 1..Len(getAllEmbeddings) :
                    FoundFor(sampledNoteIds[s], getAllEmbeddings[i]) # <<>> =>
                        \E k \in 1..Len(allConnections) :
                            NotesOf(allConnections[k])
                                = {sampledNoteIds[s], getAllEmbeddings[i].noteId}
          /\ Len(ftResult) = Min(Len(allConnections), limit)
          /\ \A i \in 1..(Len(ftResult) - 1) :
                ftResult[i].serendipityScore >= ftResult[i + 1].serendipityScore
          /\ \A i \in 1..Len(ftResult) : ftResult[i] \in Range(allConnections)
          /\ \A k \in 1..Len(allConnections) :
                \/ allConnections[k] \in Range(ftResult)
                \/ \A i \in 1..Len(ftResult) :
                      ftResult[i].serendipityScore >= allConnections[k].serendipityScore

\* the sampling took 100 of more than 100 identifiers, and findTop returned
\* fewer connections than it had merged, of more than one source
C20_Witness ==
    /\ Applied("sampledNoteIds")
    /\ Len(fnCall.args[1]) > SampleSize
    /\ fnResult[1] # Take(fnCall.args[1], SampleSize)
    /\ FindTopReturned
    /\ Len(sampledNoteIds) >= 2
    /\ Len(allConnections) > limit
    /\ \E j, k \in 1..Len(allConnections) :
          /\ allConnections[j].sourceNote.noteId # allConnections[k].sourceNote.noteId
          /\ allConnections[j].serendipityScore # allConnections[k].serendipityScore

\* the positions of the tags that begin with one of the prefixes
MatchingTags(tags, prefixes) ==
    {i \in 1..Len(tags) : \E p \in 1..Len(prefixes) : StartsWith(tags[i], prefixes[p])}

\* C21: under the tag strategy the primary domain is what follows the prefix
\* in the first tag, in the order of the tags, that begins with any of the
\* configured prefixes; the folder strategy is used only when no tag begins
\* with a prefix
C21_FirstMatchingTag ==
    (Applied("primaryDomain") /\ fnCall.args[1] = "tag") =>
        LET prefixes == fnCall.args[2]
            path == fnCall.args[3]
            tags == fnCall.args[4]
            matching == MatchingTags(tags, prefixes)
        IN  IF matching = {} THEN fnResult = inferDomainFromPath(path)
            ELSE LET first == CHOOSE i \in matching : \A j \in matching : i <= j
                 IN  \E p \in 1..Len(prefixes) :
                        /\ StartsWith(tags[first], prefixes[p])
                        /\ fnResult = Slice(tags[first], Len(prefixes[p]))

\* the segments of the path of the call
PathSegments == Split(fnCall.args[3], "/")

\* C22, as the specification words it: under the folder strategy the primary
\* domain of a note in a folder is the top-level folder, or the second segment
\* of the path when the top-level folder has a numeric prefix and the path has
\* a second segment
C22_SecondSegmentWhenNumbered ==
    (Applied("primaryDomain") /\ fnCall.args[1] = "folder" /\ Len(PathSegments) >= 2) =>
        IF HasNumericPrefix(PathSegments[1]) /\ Len(PathSegments) >= 2
        THEN fnResult = PathSegments[2]
        ELSE fnResult = PathSegments[1]

\* C22, amended: under the folder strategy the primary domain is "root" for a
\* path without a folder, the second segment when the top-level folder has a
\* numeric prefix and the path has at least three segments (the second segment
\* is a folder too), and the top-level folder otherwise
C22_FolderDomain ==
    (Applied("primaryDomain") /\ fnCall.args[1] = "folder") =>
        IF Len(PathSegments) < 2 THEN fnResult = <<"r","o","o","t">>
        ELSE IF HasNumericPrefix(PathSegments[1]) /\ Len(PathSegments) >= 3
        THEN fnResult = PathSegments[2]
        ELSE fnResult = PathSegments[1]

\* the folder strategy skipped a numbering folder
C22_Witness ==
    /\ Applied("primaryDomain")
    /\ fnCall.args[1] = "folder"
    /\ Len(PathSegments) >= 3
    /\ HasNumericPrefix(PathSegments[1])
    /\ fnResult = PathSegments[2]
    /\ fnResult # PathSegments[1]

\* the pairs of the list that join the two domains, in either direction
PairsOfDomains(pairs, d1, d2) ==
    {k \in 1..Len(pairs) :
        {pairs[k].source.primaryDomain, pairs[k].target.primaryDomain} = {d1, d2}}

\* the notes of domain d in these pairs
NotesOfSide(pairs, ks, d) ==
    {pairs[k].source.noteId : k \in {q \in ks : pairs[q].source.primaryDomain = d}}
        \cup {pairs[k].target.noteId : k \in {q \in ks : pairs[q].target.primaryDomain = d}}

\* C23: every candidate pair of the deep engine joins two different notes of
\* different primary domains with the domain distance 1.0, and for each
\* unordered pair of domains at most 3 notes of each side are used, in at
\* most 9 pairs
C23_CrossDomainPairs ==
    Applied("crossDomainPairs") =>
        LET pairs == fnResult
            domains == {fnCall.args[1][g].domain : g \in 1..Len(fnCall.args[1])}
        IN  /\ \A k \in 1..Len(pairs) :
                  /\ pairs[k].source.noteId # pairs[k].target.noteId
                  /\ pairs[k].source.primaryDomain # pairs[k].target.primaryDomain
                  /\ pairs[k].domainDistance = One
            /\ \A d1, d2 \in domains :
                  LET ks == PairsOfDomains(pairs, d1, d2)
                  IN  /\ Cardinality(NotesOfSide(pairs, ks, d1)) <= 3
                      /\ Cardinality(NotesOfSide(pairs, ks, d2)) <= 3
                      /\ Cardinality(ks) <= 9

\* two groups of more than three notes gave nine pairs, one note of each group
\* left out
C23_Witness ==
    /\ Applied("crossDomainPairs")
    /\ \E g, h \in 1..Len(fnCall.args[1]) :
          /\ g # h
          /\ Len(fnCall.args[1][g].notes) > 3
          /\ Len(fnCall.args[1][h].notes) > 3
          /\ Cardinality(PairsOfDomains(fnResult, fnCall.args[1][g].domain,
                                        fnCall.args[1][h].domain)) = 9

\* the requests the evaluator has not answered yet
Outstanding == Len(requests) - Len(answers)

\* C24: in a run of the deep engine at most one request to the evaluator is
\* outstanding at any time, and a request is sent only when every request
\* before it was answered, by a response or by a throw
C24_OneRequestOutstanding ==
    /\ Outstanding \in {0, 1}
    /\ Outstanding = 1 <=> dpPc = "await"
    /\ dpPc = "await" => Len(answers) = dpNext - 1
    /\ dpPc = "evaluate" => Len(answers) = dpNext - 1

\* the second request is outstanding, after the first one failed by a throw
C24_Witness ==
    /\ dpPc = "await"
    /\ Len(requests) = 2
    /\ Len(answers) = 1
    /\ answers[1].kind = "threw"

\* C25: fromTagJaccard is 1 - |A n B| / |A u B| for the sets A and B of the
\* tags of the two lists (to the precision of 1/Scale), 1.0 for two empty
\* lists, 0.0 for two equal lists that are not empty, and the same with its
\* arguments exchanged
C25_TagJaccard ==
    Applied("fromTagJaccard") =>
        LET tags1 == fnCall.args[1]
            tags2 == fnCall.args[2]
            common == Cardinality(Range(tags1) \cap Range(tags2))
            all == Cardinality(Range(tags1) \cup Range(tags2))
        IN  /\ all > 0 =>
                  /\ (One - fnResult) * all <= common * One
                  /\ common * One < (One - fnResult + 1) * all
            /\ (tags1 = <<>> /\ tags2 = <<>>) => fnResult = One
            /\ (tags1 = tags2 /\ tags1 # <<>>) => fnResult = 0
            /\ fnResult = fromTagJaccard(tags2, tags1)

\* the distance of a list with a repeated tag to a list it shares one tag of
\* two with
C25_Witness ==
    /\ Applied("fromTagJaccard")
    /\ Len(fnCall.args[1]) > Cardinality(Range(fnCall.args[1]))
    /\ Range(fnCall.args[1]) \cap Range(fnCall.args[2]) # {}
    /\ Range(fnCall.args[1]) # Range(fnCall.args[2])
    /\ fnResult = One \div 2

\* a step of a discovery: execute begins, scans a target or returns
DiscoveryStep == <<exPc, exNext, sourceNoteId>>' # <<exPc, exNext, sourceNoteId>>

\* the index is whole: the one before the last rebuild, or the one of all the
\* files the last rebuild read
WholeIndex ==
    \/ noteIdToPath = indexing.before
    \/ noteIdToPath = buildNoteIdIndex(indexing.files)

\* C26: every step of a discovery, with its lookups getPathByNoteId and
\* classifyNote, finds the whole index of before a refresh or the whole index
\* of after it, never one that is being rebuilt
C26_WholeIndexAtLookup ==
    [][DiscoveryStep => WholeIndex]_vars

\* execute is in its scan, it classified its source, and a refresh that ran
\* since then took the source out of the index
C26_Witness ==
    /\ exPc = "scan"
    /\ exNext > 1
    /\ exNext <= Len(allEmbeddings)
    /\ sourceNoteDomain # <<>>
    /\ ~indexing.running
    /\ getPathByNoteId(sourceNoteId) = None
    /\ noteIdToPath # indexing.before

(***************************************************************************)
(* C27: whenever the plugin has a DeepSerendipityUseCase (an API key is    *)
(* configured), in particular after every saveSettings, that use case      *)
(* classifies with the settings of the plugin's current                    *)
(* DomainClassificationService: the classification method and the tag      *)
(* prefixes saved last.                                                    *)
(***************************************************************************)
C27_DeepUsesCurrentService ==
    deepOptions # NoUseCase => DeepClassifier.settings = classification

\* data.json as the plugin reads it, without the key of the flow
WithoutKeyOf(flow, d) ==
    LET json == IF d = <<>> THEN EmptyData ELSE d[1]
    IN  IF flow = "standard" THEN [json EXCEPT !.serendipityCache = <<>>]
        ELSE [json EXCEPT !.deepSerendipityCache = <<>>]

(***************************************************************************)
(* C28: the save of a cache operation leaves every key of data.json other  *)
(* than its own as it was, also when an operation of the other flow saved  *)
(* between its load and its save.                                          *)
(***************************************************************************)
C28_OwnKeyOnly ==
    [][\A flow \in Flows :
          CacheSave(flow) => WithoutKeyOf(flow, data') = WithoutKeyOf(flow, data)]_vars

(***************************************************************************)
(* C29: the use case an open sidebar view runs its next discovery with,    *)
(* and hands to its serendipity modal, has the options and the             *)
(* classification settings of the plugin's current                         *)
(* DiscoverConnectionsUseCase, also after saveSettings changed them.       *)
(***************************************************************************)
C29_ViewUsesCurrentUseCase ==
    view.open => /\ ViewUseCase.options = options
                 /\ ViewUseCase.service.settings = classification

(***************************************************************************)
(* C30: when findTopSerendipitousConnections receives from execute a       *)
(* connection of a pair it has already kept from the other direction, the  *)
(* two connections carry the same serendipity score: the score of a pair   *)
(* does not depend on which of its notes was the source.                   *)
(***************************************************************************)
C30_ScoreWithoutDirection ==
    (ftPc = "await" /\ Returned) =>
        \A i \in 1..Len(exResult), k \in 1..Len(allConnections) :
            (/\ exResult[i].sourceNote.noteId = allConnections[k].targetNote.noteId
             /\ exResult[i].targetNote.noteId = allConnections[k].sourceNote.noteId)
                => exResult[i].serendipityScore = allConnections[k].serendipityScore
====
